---------------------------- MODULE Spec2Model ----------------------------
(***************************************************************************)
(* DebugMCP: the state-synchronisation and command-sequencing layer        *)
(* (DebuggingHandler over DebuggingExecutor over the VS Code debug API).   *)
(*                                                                         *)
(* Optional values (T | null) are sequences of length at most one:         *)
(* <<>> is null and <<v>> is the value v.  Times are in milliseconds.      *)
(***************************************************************************)
EXTENDS Integers, Sequences, FiniteSets, TLC

(***************************************************************************)
(* DebugState (src/src/debugState.ts)                                      *)
(***************************************************************************)

Null == <<>>

Some(v) == <<v>>

\* new DebugState(): every field null/empty, session inactive.
NewDebugState ==
    [ sessionActive      |-> FALSE,
      fileFullPath       |-> Null,
      fileName           |-> Null,
      currentLine        |-> Null,
      currentLineContent |-> Null,
      nextLines          |-> <<>>,
      frameId            |-> Null,
      threadId           |-> Null,
      frameName          |-> Null ]

hasLocationInfo(s) == s.fileName # Null /\ s.currentLine # Null

hasFrameName(s) == s.frameName # Null

updateContext(s, frameId, threadId) ==
    [s EXCEPT !.frameId = Some(frameId), !.threadId = Some(threadId)]

updateLocation(s, fileFullPath, fileName, currentLine, currentLineContent, nextLines) ==
    [s EXCEPT !.fileFullPath       = Some(fileFullPath),
              !.fileName           = Some(fileName),
              !.currentLine        = Some(currentLine),
              !.currentLineContent = Some(currentLineContent),
              !.nextLines          = nextLines]

\* frameName is string | null: the argument is already an optional.
updateFrameName(s, frameName) == [s EXCEPT !.frameName = frameName]

\* Faulty variant: the copy forgets the execution context.
cloneWithoutContext(s) ==
    [ sessionActive      |-> s.sessionActive,
      fileFullPath       |-> s.fileFullPath,
      fileName           |-> s.fileName,
      currentLine        |-> s.currentLine,
      currentLineContent |-> s.currentLineContent,
      nextLines          |-> [i \in 1 .. Len(s.nextLines) |-> s.nextLines[i]],
      frameId            |-> Null,
      threadId           |-> Null,
      frameName          |-> s.frameName ]

\* clone(): a new DebugState, each field assigned from this one.
clone(s) ==
    [ sessionActive      |-> s.sessionActive,
      fileFullPath       |-> s.fileFullPath,
      fileName           |-> s.fileName,
      currentLine        |-> s.currentLine,
      currentLineContent |-> s.currentLineContent,
      nextLines          |-> [i \in 1 .. Len(s.nextLines) |-> s.nextLines[i]],
      frameId            |-> s.frameId,
      threadId           |-> s.threadId,
      frameName          |-> s.frameName ]

(***************************************************************************)
(* DebuggingHandler.hasStateChanged (src/src/debuggingHandler.ts)          *)
(***************************************************************************)

\* Faulty variant: the two session-status tests dropped.
hasStateChangedNoStatus(beforeState, afterState) ==
    IF hasLocationInfo(beforeState) /\ ~hasLocationInfo(afterState)
       /\ afterState.sessionActive THEN FALSE
    ELSE IF ~hasLocationInfo(beforeState) \/ ~hasLocationInfo(afterState)
         THEN hasLocationInfo(beforeState) # hasLocationInfo(afterState)
    ELSE IF beforeState.fileFullPath # afterState.fileFullPath THEN TRUE
    ELSE IF beforeState.currentLine # afterState.currentLine THEN TRUE
    ELSE IF beforeState.frameName # afterState.frameName THEN TRUE
    ELSE IF beforeState.frameId # afterState.frameId THEN TRUE
    ELSE FALSE

\* Faulty variant: the line comparison dropped.
hasStateChangedNoLine(beforeState, afterState) ==
    IF hasLocationInfo(beforeState) /\ ~hasLocationInfo(afterState)
       /\ afterState.sessionActive THEN FALSE
    ELSE IF beforeState.sessionActive # afterState.sessionActive THEN TRUE
    ELSE IF ~afterState.sessionActive THEN TRUE
    ELSE IF ~hasLocationInfo(beforeState) \/ ~hasLocationInfo(afterState)
         THEN hasLocationInfo(beforeState) # hasLocationInfo(afterState)
    ELSE IF beforeState.fileFullPath # afterState.fileFullPath THEN TRUE
    ELSE IF beforeState.frameName # afterState.frameName THEN TRUE
    ELSE IF beforeState.frameId # afterState.frameId THEN TRUE
    ELSE FALSE

\* Faulty variant: the frame-name comparison dropped.
hasStateChangedNoFrameName(beforeState, afterState) ==
    IF hasLocationInfo(beforeState) /\ ~hasLocationInfo(afterState)
       /\ afterState.sessionActive THEN FALSE
    ELSE IF beforeState.sessionActive # afterState.sessionActive THEN TRUE
    ELSE IF ~afterState.sessionActive THEN TRUE
    ELSE IF ~hasLocationInfo(beforeState) \/ ~hasLocationInfo(afterState)
         THEN hasLocationInfo(beforeState) # hasLocationInfo(afterState)
    ELSE IF beforeState.fileFullPath # afterState.fileFullPath THEN TRUE
    ELSE IF beforeState.currentLine # afterState.currentLine THEN TRUE
    ELSE IF beforeState.frameId # afterState.frameId THEN TRUE
    ELSE FALSE

\* Faulty variant: the block for states without location info dropped.
hasStateChangedNoLocationRule(beforeState, afterState) ==
    IF hasLocationInfo(beforeState) /\ ~hasLocationInfo(afterState)
       /\ afterState.sessionActive THEN FALSE
    ELSE IF beforeState.sessionActive # afterState.sessionActive THEN TRUE
    ELSE IF ~afterState.sessionActive THEN TRUE
    ELSE IF beforeState.fileFullPath # afterState.fileFullPath THEN TRUE
    ELSE IF beforeState.currentLine # afterState.currentLine THEN TRUE
    ELSE IF beforeState.frameName # afterState.frameName THEN TRUE
    ELSE IF beforeState.frameId # afterState.frameId THEN TRUE
    ELSE FALSE

\* Faulty variant: files told apart by name instead of by full path.
hasStateChangedByName(beforeState, afterState) ==
    IF hasLocationInfo(beforeState) /\ ~hasLocationInfo(afterState)
       /\ afterState.sessionActive THEN FALSE
    ELSE IF beforeState.sessionActive # afterState.sessionActive THEN TRUE
    ELSE IF ~afterState.sessionActive THEN TRUE
    ELSE IF ~hasLocationInfo(beforeState) \/ ~hasLocationInfo(afterState)
         THEN hasLocationInfo(beforeState) # hasLocationInfo(afterState)
    ELSE IF beforeState.fileName # afterState.fileName THEN TRUE
    ELSE IF beforeState.currentLine # afterState.currentLine THEN TRUE
    ELSE IF beforeState.frameName # afterState.frameName THEN TRUE
    ELSE IF beforeState.frameId # afterState.frameId THEN TRUE
    ELSE FALSE

\* Faulty variant: the transient-gap guard dropped.
hasStateChangedNoGap(beforeState, afterState) ==
    IF beforeState.sessionActive # afterState.sessionActive THEN TRUE
    ELSE IF ~afterState.sessionActive THEN TRUE
    ELSE IF ~hasLocationInfo(beforeState) \/ ~hasLocationInfo(afterState)
         THEN hasLocationInfo(beforeState) # hasLocationInfo(afterState)
    ELSE IF beforeState.fileFullPath # afterState.fileFullPath THEN TRUE
    ELSE IF beforeState.currentLine # afterState.currentLine THEN TRUE
    ELSE IF beforeState.frameName # afterState.frameName THEN TRUE
    ELSE IF beforeState.frameId # afterState.frameId THEN TRUE
    ELSE FALSE

\* Faulty variant: the frame-id comparison dropped.
hasStateChangedNoFrameId(beforeState, afterState) ==
    IF hasLocationInfo(beforeState) /\ ~hasLocationInfo(afterState)
       /\ afterState.sessionActive THEN FALSE
    ELSE IF beforeState.sessionActive # afterState.sessionActive THEN TRUE
    ELSE IF ~afterState.sessionActive THEN TRUE
    ELSE IF ~hasLocationInfo(beforeState) \/ ~hasLocationInfo(afterState)
         THEN hasLocationInfo(beforeState) # hasLocationInfo(afterState)
    ELSE IF beforeState.fileFullPath # afterState.fileFullPath THEN TRUE
    ELSE IF beforeState.currentLine # afterState.currentLine THEN TRUE
    ELSE IF beforeState.frameName # afterState.frameName THEN TRUE
    ELSE FALSE

\* Faulty variant: the test for a session that is no longer active dropped.
hasStateChangedNoEndedRule(beforeState, afterState) ==
    IF hasLocationInfo(beforeState) /\ ~hasLocationInfo(afterState)
       /\ afterState.sessionActive THEN FALSE
    ELSE IF beforeState.sessionActive # afterState.sessionActive THEN TRUE
    ELSE IF ~hasLocationInfo(beforeState) \/ ~hasLocationInfo(afterState)
         THEN hasLocationInfo(beforeState) # hasLocationInfo(afterState)
    ELSE IF beforeState.fileFullPath # afterState.fileFullPath THEN TRUE
    ELSE IF beforeState.currentLine # afterState.currentLine THEN TRUE
    ELSE IF beforeState.frameName # afterState.frameName THEN TRUE
    ELSE IF beforeState.frameId # afterState.frameId THEN TRUE
    ELSE FALSE

hasStateChanged(beforeState, afterState) ==
    IF hasLocationInfo(beforeState) /\ ~hasLocationInfo(afterState)
       /\ afterState.sessionActive THEN FALSE
    ELSE IF beforeState.sessionActive # afterState.sessionActive THEN TRUE
    ELSE IF ~afterState.sessionActive THEN TRUE
    ELSE IF ~hasLocationInfo(beforeState) \/ ~hasLocationInfo(afterState)
         THEN hasLocationInfo(beforeState) # hasLocationInfo(afterState)
    ELSE IF beforeState.fileFullPath # afterState.fileFullPath THEN TRUE
    ELSE IF beforeState.currentLine # afterState.currentLine THEN TRUE
    ELSE IF beforeState.frameName # afterState.frameName THEN TRUE
    ELSE IF beforeState.frameId # afterState.frameId THEN TRUE
    ELSE FALSE


(***************************************************************************)
(* The workspace: one source file, the debuggee that runs it, bounds       *)
(***************************************************************************)

\* A path is the sequence of its segments (split on / and \).
File == <<"ws", "test.py">>

\* The test program of docs/debug_instructions.md. A line is a sequence of
\* characters, abbreviated: " " is one whitespace character, any other
\* string stands for a run of non-blank text.
Doc ==
    << <<"def calculate(x):">>,
       <<" ", " ", "a = x + 1">>,
       <<" ", " ", "b = a * 2">>,
       <<" ", " ", "c = b - 3">>,
       <<" ", " ", "return c", " ">>,
       <<>>,
       <<"result = calculate(5)">> >>

\* The stops the debuggee can make, in execution order: 1-based line, call
\* depth and the name of the top frame there.
Trace ==
    << [line |-> 2, depth |-> 2, name |-> "calculate"],
       [line |-> 3, depth |-> 2, name |-> "calculate"],
       [line |-> 4, depth |-> 2, name |-> "calculate"],
       [line |-> 5, depth |-> 2, name |-> "calculate"],
       [line |-> 7, depth |-> 1, name |-> "<module>"] >>

\* A second file, for content search: three of its lines contain "x = 5";
\* the text ends with a line break, so split() yields a last, empty line.
File2 == <<"ws", "multi.py">>

Doc2 ==
    << <<"x = 5">>,
       <<"y = ", "x = 5", " + 1">>,
       <<"print(x)">>,
       <<" ", " ", "x = 5">>,
       <<>> >>

\* A path with no file behind it.
NoFile == <<"ws", "gone.py">>

Paths == {File, File2, NoFile}

\* document.getText().split(/\r?\n/) of the file at path (openTextDocument
\* has succeeded).
LinesOf(path) == IF path = File THEN Doc ELSE Doc2

\* The lineContent arguments tried.
Contents == {<<"x = 5">>, <<" ", "x = 5">>, <<"print(x)">>, <<"b = a * 2">>,
             <<"z = 0">>, <<>>}

\* Frame ids a debug adapter hands out: a frame id is valid while the
\* debuggee stays stopped; the adapter may reuse it at the next stop or not.
FrameIds == {1, 2}

\* The handler's timeoutInSeconds (constructor argument).
TimeoutInSeconds == 2

\* Math.random() * 200, at its two ends: [0, 200).
Jitters == {0, 199}

numNextLines == 3

executionDelay == 300

Flows == {1, 2}

StepOps == {"step_over", "step_into", "step_out", "continue_execution"}

GatedOps == StepOps \cup {"stop_debugging", "restart_debugging",
                          "get_variables_values", "evaluate_expression"}

\* Flow 1 is the agent's sequence of awaited tool calls; flow 2 is a stop or
\* restart pipelined behind one of its step or continue calls (the transport
\* does not serialise calls).
OpsOf(f) == IF f = 1 THEN GatedOps \cup {"start_debugging"}
            ELSE {"stop_debugging", "restart_debugging"}

RECURSIVE Pow2(_)
Pow2(n) == IF n = 0 THEN 1 ELSE 2 * Pow2(n - 1)

Min(a, b) == IF a < b THEN a ELSE b

\* fileName.split(/[/\\]/).pop() || ''
BaseName(path) == IF Len(path) = 0 THEN "" ELSE path[Len(path)]

RECURSIVE TrimStart(_)
TrimStart(s) == IF s # <<>> /\ Head(s) = " " THEN TrimStart(Tail(s)) ELSE s

RECURSIVE TrimEnd(_)
TrimEnd(s) == IF s # <<>> /\ s[Len(s)] = " "
              THEN TrimEnd(SubSeq(s, 1, Len(s) - 1)) ELSE s

\* String.prototype.trim
Trim(s) == TrimEnd(TrimStart(s))

VARIABLES
    activeDebugSession,  \* vscode.debug.activeDebugSession: 0 (undefined) or 1
    activeStackItem,     \* vscode.debug.activeStackItem: Null or Some([frameId, threadId])
    activeTextEditor,    \* vscode.window.activeTextEditor: Null or Some([path, line]), line 0-based
    breakpoints,         \* vscode.debug.breakpoints: list of [path, line], line 0-based
    dbg,                 \* the debuggee behind the session
    engine,              \* requests the engine has accepted and not yet carried out
    h,                   \* h[f]: the tool call of flow f, suspended at an await
    result,              \* result[f]: the response of the call just completed
    prev,                \* prev[f]: what the caller last received
    calls,               \* number of tool calls made so far
    hsBefore, hsAfter, hsResult,  \* inputs and result of one hasStateChanged evaluation
    fnIn, fnOut,                  \* input and result of one evaluation of another function
    server,              \* DebugMCPServer: its HTTP server and its transports map
    outputCapturer,      \* OutputCapturer: capturing, targetSessionId, outputBuffer
    evaluations          \* evaluations[f]: the evaluateExpression call of flow f

vars == <<activeDebugSession, activeStackItem, activeTextEditor, breakpoints,
          dbg, engine, h, result, prev, calls, hsBefore, hsAfter, hsResult,
          fnIn, fnOut, server, outputCapturer, evaluations>>

engineVars == <<activeDebugSession, activeStackItem, activeTextEditor, dbg, engine>>

serverVars == <<server, outputCapturer, evaluations>>

hsVars == <<hsBefore, hsAfter, hsResult, fnIn, fnOut, serverVars>>

\* The tool calls of one scenario.
MaxCalls == 3

\* DebugMCPServer after construction: no HTTP server, an empty transports map
\* (its keys in insertion order).  open is the set of session ids whose SSE
\* response stream is open, created counts the transports constructed, stop
\* is the position of stop() and post is the answer to the last POST.
IdleServer ==
    [httpServer |-> "null", transports |-> <<>>, open |-> {}, created |-> 0,
     stop |-> "idle", visited |-> {}, post |-> Null]

\* OutputCapturer after construction.
IdleCapturer == [capturing |-> FALSE, targetSessionId |-> Null, outputBuffer |-> <<>>]

\* No evaluateExpression call in progress.  delivered lists the output events
\* the adapter sent while the call was between its startCapture and its
\* stopCapture.
NoEvaluation == [pc |-> "idle", delivered |-> <<>>, captured |-> Null, threw |-> FALSE]

ServerAtRest ==
    /\ server = IdleServer
    /\ outputCapturer = IdleCapturer
    /\ evaluations = [f \in Flows |-> NoEvaluation]

(***************************************************************************)
(* The debug engine behind the VS Code API (external collaborator).        *)
(* Step commands are fire-and-forget; the stack item and the editor cursor *)
(* are updated by separate events, in either order                         *)
(* (docs/timing-guarantees-analysis.md).                                   *)
(***************************************************************************)

NoDebuggee == [status |-> "none", pos |-> 0, goal |-> "continue", fid |-> 1]

Launched == [status |-> "running", pos |-> 0, goal |-> "continue", fid |-> 1]

IdleEngine ==
    [ cmd |-> Null, launch |-> FALSE, relaunch |-> FALSE,
      stackPending |-> FALSE, editorPending |-> FALSE ]

HasBreakpoint(line) ==
    \E k \in 1 .. Len(breakpoints) : breakpoints[k] = [path |-> File, line |-> line - 1]

\* Where the running debuggee stops next: the first later stop that carries a
\* breakpoint or ends the step; Len(Trace) + 1 when the program runs to its end.
NextStop(pos, goal) ==
    LET Ends(j) == CASE goal = "stepInto" -> TRUE
                     [] goal = "stepOver" -> Trace[j].depth <= Trace[pos].depth
                     [] goal = "stepOut"  -> Trace[j].depth < Trace[pos].depth
                     [] OTHER -> FALSE
        cands == {j \in (pos + 1) .. Len(Trace) : HasBreakpoint(Trace[j].line) \/ Ends(j)}
    IN  IF cands = {} THEN Len(Trace) + 1
        ELSE CHOOSE j \in cands : \A k \in cands : j <= k

\* The engine's pending work once the debuggee is no longer stopped where it was.
Reset(eng) == [eng EXCEPT !.cmd = Null, !.stackPending = FALSE, !.editorPending = FALSE]

\* A response on its way to the caller is delivered, and the fixed delay
\* that ends handleRestart elapses, before anything else happens: both touch
\* nothing but the call's own state, so they commute with every other step.
NoneDone == \A f \in Flows : h[f].pc \notin {"done", "restartSleep"}

\* The same for the steps of flow f with respect to the pipelined call.
Quiet(f) == f = 2 \/ h[2].pc \notin {"done", "restartSleep"}

\* The engine takes up a step/continue command: the debuggee runs, the stack
\* item is cleared.
EngineResume ==
    /\ NoneDone
    /\ engine.cmd # Null
    /\ dbg.status = "stopped"
    /\ dbg' = [dbg EXCEPT !.status = "running", !.goal = engine.cmd[1]]
    /\ activeStackItem' = Null
    /\ engine' = Reset(engine)
    /\ UNCHANGED <<activeDebugSession, activeTextEditor, breakpoints, h, result, prev, calls, hsVars>>

DebuggeeStops ==
    /\ NoneDone
    /\ dbg.status = "running"
    /\ NextStop(dbg.pos, dbg.goal) <= Len(Trace)
    /\ \E fid \in FrameIds :
          dbg' = [status |-> "stopped", pos |-> NextStop(dbg.pos, dbg.goal),
                  goal |-> "continue", fid |-> fid]
    /\ engine' = [engine EXCEPT !.stackPending = TRUE, !.editorPending = TRUE]
    /\ UNCHANGED <<activeDebugSession, activeStackItem, activeTextEditor, breakpoints,
                   h, result, prev, calls, hsVars>>

\* The program runs to its end: the session terminates.
DebuggeeExits ==
    /\ NoneDone
    /\ dbg.status = "running"
    /\ NextStop(dbg.pos, dbg.goal) > Len(Trace)
    /\ activeDebugSession' = 0
    /\ activeStackItem' = Null
    /\ dbg' = NoDebuggee
    /\ engine' = Reset(engine)
    /\ UNCHANGED <<activeTextEditor, breakpoints, h, result, prev, calls, hsVars>>

UpdateStackItem ==
    /\ NoneDone
    /\ engine.stackPending
    /\ activeStackItem' = Some([frameId |-> dbg.fid, threadId |-> 1])
    /\ engine' = [engine EXCEPT !.stackPending = FALSE]
    /\ UNCHANGED <<activeDebugSession, activeTextEditor, breakpoints, dbg, h, result, prev, calls, hsVars>>

UpdateEditor ==
    /\ NoneDone
    /\ engine.editorPending
    /\ activeTextEditor' = Some([path |-> File, line |-> Trace[dbg.pos].line - 1])
    /\ engine' = [engine EXCEPT !.editorPending = FALSE]
    /\ UNCHANGED <<activeDebugSession, activeStackItem, breakpoints, dbg, h, result, prev, calls, hsVars>>

\* A launch (vscode.debug.startDebugging, or the second half of a restart)
\* is carried out: a new session, its debuggee running from the start.
StartSession ==
    /\ NoneDone
    /\ engine.launch \/ engine.relaunch
    /\ activeDebugSession' = 1
    /\ activeStackItem' = Null
    /\ dbg' = Launched
    /\ engine' = [Reset(engine) EXCEPT !.launch = IF engine.relaunch THEN @ ELSE FALSE,
                                       !.relaunch = FALSE]
    /\ UNCHANGED <<activeTextEditor, breakpoints, h, result, prev, calls, hsVars>>

EngineNext ==
    \/ EngineResume
    \/ DebuggeeStops
    \/ DebuggeeExits
    \/ UpdateStackItem
    \/ UpdateEditor
    \/ StartSession

(***************************************************************************)
(* DebuggingExecutor (src/src/debuggingExecutor.ts)                        *)
(***************************************************************************)

\* getCurrentDebugState up to its first await (the stackTrace request):
\* done when there is no session or no stack item, and nothing is awaited.
\* Faulty variant: without a session the editor's cursor is still reported.
getCurrentDebugStateBeginEditorAlways ==
    IF activeDebugSession # 0
    THEN LET s == [NewDebugState EXCEPT !.sessionActive = TRUE]
         IN  IF activeStackItem # Null
             THEN [done  |-> FALSE,
                   state |-> updateContext(s, activeStackItem[1].frameId,
                                              activeStackItem[1].threadId)]
             ELSE [done |-> TRUE, state |-> s]
    ELSE [done  |-> TRUE,
          state |-> IF activeTextEditor # Null
                    THEN updateLocation(NewDebugState, activeTextEditor[1].path,
                                        BaseName(activeTextEditor[1].path),
                                        activeTextEditor[1].line + 1, <<>>, <<>>)
                    ELSE NewDebugState]

\* Faulty variant: the frame name and the editor are read without a stack item.
getCurrentDebugStateBeginNoItemCheck ==
    IF activeDebugSession # 0
    THEN LET s == [NewDebugState EXCEPT !.sessionActive = TRUE]
         IN  IF activeStackItem # Null
             THEN [done  |-> FALSE,
                   state |-> updateContext(s, activeStackItem[1].frameId,
                                              activeStackItem[1].threadId)]
             ELSE [done |-> FALSE, state |-> s]
    ELSE [done |-> TRUE, state |-> NewDebugState]

\* getCurrentDebugState up to its await (lines 229-243): the session, then
\* the stack item; done when nothing is awaited.
getCurrentDebugStateBegin ==
    IF activeDebugSession # 0
    THEN LET s == [NewDebugState EXCEPT !.sessionActive = TRUE]
         IN  IF activeStackItem # Null
             THEN [done  |-> FALSE,
                   state |-> updateContext(s, activeStackItem[1].frameId,
                                              activeStackItem[1].threadId)]
             ELSE [done |-> TRUE, state |-> s]
    ELSE [done |-> TRUE, state |-> NewDebugState]

\* The answer to customRequest('stackTrace'): the top frame's name, or Null
\* when the request throws or returns no frames (no stopped thread).
StackTraceResponse ==
    IF activeDebugSession # 0 /\ dbg.status = "stopped"
    THEN Some(Trace[dbg.pos].name) ELSE Null

extractFrameName(state) == updateFrameName(state, StackTraceResponse)

NextLinesOf(line) ==
    [i \in 1 .. Min(numNextLines, Len(Doc) - 1 - line) |-> Trim(Doc[line + i + 1])]

\* getCurrentDebugState from the stackTrace answer on: frame name, then the
\* editor's cursor.
getCurrentDebugStateEnd(partial) ==
    LET s == extractFrameName(partial)
    IN  IF activeTextEditor # Null
        THEN LET ed == activeTextEditor[1]
             IN  updateLocation(s, ed.path, BaseName(ed.path), ed.line + 1,
                                Trim(Doc[ed.line + 1]), NextLinesOf(ed.line))
        ELSE s

(***************************************************************************)
(* DebuggingHandler (src/src/debuggingHandler.ts).                         *)
(*                                                                         *)
(* A tool call runs synchronously from one await to the next; each         *)
(* operator below is the code run from one resumption until the call       *)
(* suspends again (pc names the await) or completes (pc = "done").  It     *)
(* yields the call's new local state, its response once complete, and the  *)
(* request it sent to the engine.                                          *)
(***************************************************************************)

\* The local state of a call. lastPoll, missed, gate, started, barrier,
\* rejected, stackThrew, editorThrew and via are history: they record what the call observed and never steer it.
IdleCall ==
    [ pc |-> "idle", op |-> "none", partial |-> NewDebugState,
      beforeState |-> NewDebugState, elapsed |-> 0, attempt |-> 0,
      bpCount |-> 0, gate |-> Null, started |-> Null, lastPoll |-> Null,
      missed |-> FALSE, barrier |-> FALSE, via |-> "none",
      fileFullPath |-> <<>>, lineContent |-> <<>>, line |-> 0, rejected |-> FALSE,
      stackThrew |-> FALSE, editorThrew |-> FALSE ]

NoResponse == [op |-> "none", ok |-> FALSE, msg |-> <<>>, state |-> Null, text |-> <<>>]

NoPrev == [op |-> "none", active |-> FALSE, line |-> Null, paused |-> FALSE]

\* Faulty variant: the session flag is looked at only after the location.
formatDebugStateLocationFirst(state) ==
    IF hasLocationInfo(state)
    THEN << [fixed |-> "Debug State:"] >>
         \o (IF hasFrameName(state) THEN << [frame |-> state.frameName] >> ELSE <<>>)
         \o << [file |-> state.fileName],
               [line |-> state.currentLine],
               [lineNo |-> state.currentLine, src |-> state.currentLineContent] >>
    ELSE IF ~state.sessionActive THEN << [fixed |-> "Debug session is not active"] >>
    ELSE << [fixed |-> "Debug State:"] >>
         \o (IF hasFrameName(state) THEN << [frame |-> state.frameName] >> ELSE <<>>)
         \o << [fixed |-> "No location information available. The session might have stopped or ended"] >>

\* formatDebugState: the text as its sequence of lines.
formatDebugState(state) ==
    IF ~state.sessionActive THEN << [fixed |-> "Debug session is not active"] >>
    ELSE << [fixed |-> "Debug State:"] >>
         \o (IF hasFrameName(state) THEN << [frame |-> state.frameName] >> ELSE <<>>)
         \o (IF hasLocationInfo(state)
             THEN << [file |-> state.fileName],
                     [line |-> state.currentLine],
                     [lineNo |-> state.currentLine, src |-> state.currentLineContent] >>
             ELSE << [fixed |-> "No location information available. The session might have stopped or ended"] >>)

ErrorPrefix(op) ==
    CASE op = "start_debugging"      -> "Error starting debug session: "
      [] op = "stop_debugging"       -> "Error stopping debug session: "
      [] op = "step_over"            -> "Error executing step over: "
      [] op = "step_into"            -> "Error executing step into: "
      [] op = "step_out"             -> "Error executing step out: "
      [] op = "continue_execution"   -> "Error executing continue: "
      [] op = "restart_debugging"    -> "Error restarting debug session: "
      [] op = "add_breakpoint"       -> "Error adding breakpoint: "
      [] op = "remove_breakpoint"    -> "Error removing breakpoint: "
      [] op = "list_breakpoints"     -> "Error listing breakpoints: "
      [] op = "get_variables_values" -> "Error getting variables: "
      [] OTHER                       -> "Error evaluating expression: "

\* The executor command a step operation dispatches.
CommandOf(op) ==
    CASE op = "step_over" -> "stepOver"
      [] op = "step_into" -> "stepInto"
      [] op = "step_out"  -> "stepOut"
      [] OTHER            -> "continue"

Suspend(l, pc) == [h |-> [l EXCEPT !.pc = pc], out |-> Null, req |-> Null, clear |-> FALSE]

Send(l, pc, req) == [h |-> [l EXCEPT !.pc = pc], out |-> Null, req |-> Some(req), clear |-> FALSE]

\* return text
Return(l, msg) ==
    [h |-> [l EXCEPT !.pc = "done"],
     out |-> Some([op |-> l.op, ok |-> TRUE, msg |-> <<msg>>, state |-> Null, text |-> <<>>]),
     req |-> Null, clear |-> FALSE]

\* return a text that embeds formatDebugState(state)
ReturnState(l, msg, state, via) ==
    [h |-> [l EXCEPT !.pc = "done", !.via = via, !.partial = NewDebugState],
     out |-> Some([op |-> l.op, ok |-> TRUE, msg |-> <<msg>>, state |-> Some(state),
                   text |-> formatDebugState(state)]),
     req |-> Null, clear |-> FALSE]

\* throw new Error(msg), caught and rethrown by the handler's catch with its
\* prefix; a message is the sequence of its sentences.
Throw(l, msg) ==
    [h |-> [l EXCEPT !.pc = "done", !.via = "throw"],
     out |-> Some([op |-> l.op, ok |-> FALSE, msg |-> <<ErrorPrefix(l.op)>> \o msg,
                   state |-> Null, text |-> <<>>]),
     req |-> Null, clear |-> FALSE]

\* Faulty variant: the delay grows without a cap.
delayUncapped(baseDelay, maxDelay, attempt) == baseDelay * Pow2(attempt)

\* Math.min(baseDelay * Math.pow(2, attempt), maxDelay), lines 487 and 521.
delay(baseDelay, maxDelay, attempt) == Min(baseDelay * Pow2(attempt), maxDelay)

\* jitteredDelay of waitForStateChange: baseDelay 1000, maxDelay 1000.
StateSleep(attempt, jitter) == delay(1000, 1000, attempt) + jitter

\* jitteredDelay of waitForActiveDebugSession: baseDelay 1000, maxDelay 10000.
ActiveSleep(attempt, jitter) == delay(1000, 10000, attempt) + jitter

\* Faulty variant: a changed snapshot is returned only on the second sight of a change.
CheckPollLate(l, state) ==
    IF hasStateChanged(l.beforeState, state) /\ (l.attempt > 0 \/ ~state.sessionActive)
    THEN ReturnState(l, "", state, "changed")
    ELSE IF ~state.sessionActive
    THEN ReturnState(l, "", state, "ended")
    ELSE Suspend([l EXCEPT !.partial = NewDebugState], "sleep")

\* Faulty variant: an ended session is reported only after one more sleep.
CheckPollActiveOnly(l, state) ==
    IF hasStateChanged(l.beforeState, state) /\ (state.sessionActive \/ l.attempt > 0)
    THEN ReturnState(l, "", state, "changed")
    ELSE Suspend([l EXCEPT !.partial = NewDebugState], "sleep")

\* Faulty variant: a polled snapshot without location ends the wait.
CheckPollNoGap(l, state) ==
    IF hasStateChanged(l.beforeState, state) \/ ~hasLocationInfo(state)
    THEN ReturnState(l, "", state, "changed")
    ELSE IF ~state.sessionActive
    THEN ReturnState(l, "", state, "ended")
    ELSE Suspend([l EXCEPT !.partial = NewDebugState], "sleep")

\* waitForStateChange, lines 509-524: the tests on a polled snapshot.
CheckPoll(l, state) ==
    IF hasStateChanged(l.beforeState, state)
    THEN ReturnState(l, "", state, "changed")
    ELSE IF ~state.sessionActive
    THEN ReturnState(l, "", state, "ended")
    ELSE Suspend([l EXCEPT !.partial = NewDebugState], "sleep")

\* Faulty variant: the loop polls once more after the timeout has elapsed.
WaitLoopOneMore(l) ==
    LET q == getCurrentDebugStateBegin
    IN  IF l.elapsed < (TimeoutInSeconds + 1) * 1000 + 200
        THEN IF q.done THEN CheckPoll(l, q.state)
             ELSE Suspend([l EXCEPT !.partial = q.state], "poll")
        ELSE IF q.done THEN ReturnState(l, "", q.state, "timeout")
             ELSE Suspend([l EXCEPT !.partial = q.state], "final")

\* waitForStateChange at the head of its loop (line 506), elapsed being
\* Date.now() - startTime.
WaitLoop(l) ==
    LET q == getCurrentDebugStateBegin
    IN  IF l.elapsed < TimeoutInSeconds * 1000
        THEN IF q.done THEN CheckPoll(l, q.state)
             ELSE Suspend([l EXCEPT !.partial = q.state], "poll")
        ELSE IF q.done THEN ReturnState(l, "", q.state, "timeout")
             ELSE Suspend([l EXCEPT !.partial = q.state], "final")

\* The sleep of waitForStateChange (lines 521-525) has elapsed.
StateSleepDone(l, jitter) ==
    WaitLoop([l EXCEPT !.elapsed = @ + StateSleep(l.attempt, jitter),
                       !.attempt = @ + 1])

\* Faulty variant: the command is sent and the snapshot is not kept.
DispatchWithoutBefore(l, state) ==
    Send([l EXCEPT !.partial = NewDebugState], "dispatch", CommandOf(l.op))

\* Lines 128-130 of a step handler: the before-state, then the command.
Dispatch(l, state) ==
    Send([l EXCEPT !.beforeState = state, !.partial = NewDebugState], "dispatch", CommandOf(l.op))

BeforeQuery(l) ==
    LET q == getCurrentDebugStateBegin
    IN  IF q.done THEN Dispatch(l, q.state)
        ELSE Suspend([l EXCEPT !.partial = q.state], "before")

\* handleStopDebugging, lines 103-112, after stopDebugging has returned.
\* The response of stop_debugging that names the count N.
Cleared(l) ==
    LET r == Return(l, "Debug session stopped successfully. Cleared N breakpoint(s).")
    IN  [r EXCEPT !.out = Some([r.out[1] EXCEPT !.text = <<[count |-> l.bpCount]>>])]

\* Faulty variant: the count is reported and the breakpoints are kept.
StopFinishNoClear(l) ==
    IF l.bpCount > 0
    THEN Cleared(l)
    ELSE Return(l, "Debug session stopped successfully")

\* handleStopDebugging, lines 102-109, once stopDebugging has returned.
StopFinish(l) ==
    IF l.bpCount > 0
    THEN [Cleared(l) EXCEPT !.clear = TRUE]
    ELSE Return(l, "Debug session stopped successfully")

\* handleStopDebugging, lines 99-100; executor.stopDebugging awaits the
\* engine only when a session exists.
StopDispatch(l) ==
    LET l2 == [l EXCEPT !.bpCount = Len(breakpoints), !.partial = NewDebugState]
    IN  IF activeDebugSession # 0 THEN Send(l2, "dispatch", "stop") ELSE StopFinish(l2)

\* handleGetVariables / handleEvaluateExpression after the gate: the active
\* stack item, then the request to the session.
InspectDispatch(l) ==
    IF activeStackItem = Null
    THEN Throw(l, <<"No active stack frame.", "Make sure execution is paused at a breakpoint.">>)
    ELSE Suspend([l EXCEPT !.partial = NewDebugState], "request")

\* Faulty variant: the step handlers go on without a ready session.
AfterGateStepsUngated(l, ready) ==
    LET l2 == [l EXCEPT !.gate = Some(ready), !.partial = NewDebugState]
    IN  CASE l.op \in StepOps -> BeforeQuery(l2)
          [] l.op = "stop_debugging" ->
               IF ~ready THEN Return(l2, "No active debug session to stop")
               ELSE StopDispatch(l2)
          [] l.op = "restart_debugging" ->
               IF ~ready THEN Throw(l2, <<"No active debug session to restart">>)
               ELSE Send(l2, "dispatch", "restart")
          [] OTHER ->
               IF ~ready
               THEN Throw(l2, <<"Debug session is not ready.", "Start debugging first and ensure execution is paused.">>)
               ELSE InspectDispatch(l2)

\* Faulty variant: stop_debugging goes on without a session.
AfterGateStopUngated(l, ready) ==
    LET l2 == [l EXCEPT !.gate = Some(ready), !.partial = NewDebugState]
    IN  CASE l.op \in StepOps ->
               IF ~ready
               THEN Throw(l2, <<"Debug session is not ready.", "Please wait for initialization to complete.">>)
               ELSE BeforeQuery(l2)
          [] l.op = "stop_debugging" -> StopDispatch(l2)
          [] l.op = "restart_debugging" ->
               IF ~ready THEN Throw(l2, <<"No active debug session to restart">>)
               ELSE Send(l2, "dispatch", "restart")
          [] OTHER ->
               IF ~ready
               THEN Throw(l2, <<"Debug session is not ready.", "Start debugging first and ensure execution is paused.">>)
               ELSE InspectDispatch(l2)

\* What each gated handler does with the answer of hasActiveSession().
AfterGate(l, ready) ==
    LET l2 == [l EXCEPT !.gate = Some(ready), !.partial = NewDebugState]
    IN  CASE l.op \in StepOps ->
               IF ~ready
               THEN Throw(l2, <<"Debug session is not ready.", "Please wait for initialization to complete.">>)
               ELSE BeforeQuery(l2)
          [] l.op = "stop_debugging" ->
               IF ~ready THEN Return(l2, "No active debug session to stop")
               ELSE StopDispatch(l2)
          [] l.op = "restart_debugging" ->
               IF ~ready THEN Throw(l2, <<"No active debug session to restart">>)
               ELSE Send(l2, "dispatch", "restart")
          [] OTHER ->
               IF ~ready
               THEN Throw(l2, <<"Debug session is not ready.", "Start debugging first and ensure execution is paused.">>)
               ELSE InspectDispatch(l2)

\* executor.hasActiveSession() as the first await of a gated handler: the
\* quick check, then getCurrentDebugState().sessionActive.
GateEntry(l) ==
    IF activeDebugSession = 0 THEN AfterGate(l, FALSE)
    ELSE LET q == getCurrentDebugStateBegin
         IN  IF q.done THEN AfterGate(l, q.state.sessionActive)
             ELSE Suspend([l EXCEPT !.partial = q.state], "gate")

GateResume(l) == AfterGate(l, getCurrentDebugStateEnd(l.partial).sessionActive)

\* handleStartDebugging, lines 79-81: the state embedded in the success text.
StartedQuery(l) ==
    LET q == getCurrentDebugStateBegin
    IN  IF q.done
        THEN ReturnState(l, "Debug session started successfully", q.state, "active")
        ELSE Suspend([l EXCEPT !.partial = q.state], "startFinal")

\* Faulty variant: a readiness timeout is reported with the launch-failure text.
ActiveLoopSameError(l) ==
    IF l.elapsed < TimeoutInSeconds * 1000
    THEN IF activeDebugSession = 0
         THEN Suspend(l, "activeSleep")
         ELSE LET q == getCurrentDebugStateBegin
              IN  IF q.done
                  THEN IF q.state.sessionActive THEN StartedQuery(l)
                       ELSE Suspend(l, "activeSleep")
                  ELSE Suspend([l EXCEPT !.partial = q.state], "activePoll")
    ELSE Throw(l, <<"Failed to start debug session.", "Make sure the appropriate language extension is installed.">>)

\* Faulty variant: the loop goes on for one more backoff interval after the timeout.
ActiveLoopOneMore(l) ==
    IF l.elapsed < TimeoutInSeconds * 1000 + 10200
    THEN IF activeDebugSession = 0
         THEN Suspend(l, "activeSleep")
         ELSE LET q == getCurrentDebugStateBegin
              IN  IF q.done
                  THEN IF q.state.sessionActive THEN StartedQuery(l)
                       ELSE Suspend(l, "activeSleep")
                  ELSE Suspend([l EXCEPT !.partial = q.state], "activePoll")
    ELSE Throw(l, <<"Debug session started but failed to become active within timeout period">>)

\* waitForActiveDebugSession at the head of its loop (line 478), followed by
\* lines 74-81 of handleStartDebugging once it returns.
ActiveLoop(l) ==
    IF l.elapsed < TimeoutInSeconds * 1000
    THEN IF activeDebugSession = 0
         THEN Suspend(l, "activeSleep")
         ELSE LET q == getCurrentDebugStateBegin
              IN  IF q.done
                  THEN IF q.state.sessionActive THEN StartedQuery(l)
                       ELSE Suspend(l, "activeSleep")
                  ELSE Suspend([l EXCEPT !.partial = q.state], "activePoll")
    ELSE Throw(l, <<"Debug session started but failed to become active within timeout period">>)

ActivePollResume(l) ==
    LET s  == getCurrentDebugStateEnd(l.partial)
        l2 == [l EXCEPT !.partial = NewDebugState]
    IN  IF s.sessionActive THEN StartedQuery(l2) ELSE Suspend(l2, "activeSleep")

\* The sleep of waitForActiveDebugSession (lines 487-491) has elapsed.
ActiveSleepDone(l, jitter) ==
    ActiveLoop([l EXCEPT !.elapsed = @ + ActiveSleep(l.attempt, jitter),
                         !.attempt = @ + 1])

\* handleStartDebugging, lines 69-84, once executor.startDebugging answers.
LaunchResume(l, started) ==
    LET l2 == [l EXCEPT !.started = Some(started)]
    IN  IF started THEN ActiveLoop(l2)
        ELSE Throw(l2, <<"Failed to start debug session.", "Make sure the appropriate language extension is installed.">>)

\* The first synchronous stretch of each handler.
Entry(l) ==
    IF l.op = "start_debugging" THEN Send(l, "launch", "launch") ELSE GateEntry(l)

(***************************************************************************)
(* The tool calls as actions: one per resumption of a suspended call.      *)
(***************************************************************************)

\* The engine's record of requests after it accepts req. A step or continue
\* command acts only on a stopped debuggee; stop and restart take effect
\* when their await returns (StopReturns, RestartReturns).
Accept(eng, req) ==
    IF req = Null THEN eng
    ELSE IF req[1] = "launch" THEN [eng EXCEPT !.launch = TRUE]
    ELSE IF req[1] \in {"stop", "restart"} THEN eng
    ELSE IF dbg.status = "stopped" THEN [eng EXCEPT !.cmd = req] ELSE eng

\* The snapshot whose query completes in the step that resumes l.
Completed(l) ==
    IF l.pc \in {"gate", "before", "poll", "final", "activePoll", "startFinal"}
    THEN getCurrentDebugStateEnd(l.partial)
    ELSE getCurrentDebugStateBegin.state

\* History: the snapshot of the last completed poll of the wait loop the
\* call is in, and whether an earlier poll that met a return condition was
\* followed by a sleep.
Observed(l, n) ==
    LET s == Completed(l)
        statePoll  == n.pc = "sleep" \/ (n.pc = "done" /\ n.via \in {"changed", "ended"})
        activePoll == /\ l.op = "start_debugging" /\ l.pc \in {"launch", "activeSleep", "activePoll"}
                      /\ n.pc \in {"activeSleep", "startFinal"} \/ (n.pc = "done" /\ n.via = "active")
    IN  [n EXCEPT !.lastPoll = IF statePoll \/ activePoll THEN Some(s) ELSE @,
                  !.missed = \/ @
                             \/ n.pc = "sleep"
                                /\ (hasStateChanged(l.beforeState, s) \/ ~s.sessionActive)
                             \/ n.pc = "activeSleep" /\ s.sessionActive]

ApplyStep(f, r, eng) ==
    /\ Quiet(f)
    /\ h' = [h EXCEPT ![f] = Observed(h[f], r.h)]
    /\ result' = IF r.out # Null THEN [result EXCEPT ![f] = r.out[1]] ELSE result
    /\ breakpoints' = IF r.clear THEN <<>> ELSE breakpoints
    /\ engine' = Accept(eng, r.req)
    /\ UNCHANGED <<activeDebugSession, activeStackItem, activeTextEditor, dbg, prev, calls, hsVars>>

\* The caller invokes a tool; flow 2 only while a step or continue call of
\* flow 1 is outstanding.
Call(f, op) ==
    /\ h[f].pc = "idle"
    /\ f = 1 \/ (h[1].op \in StepOps /\ h[1].pc # "done")
    /\ calls < MaxCalls
    /\ Quiet(f)
    /\ h' = [h EXCEPT ![f] = Observed(h[f], Entry([IdleCall EXCEPT !.op = op]).h)]
    /\ LET r == Entry([IdleCall EXCEPT !.op = op])
       IN  /\ result' = IF r.out # Null THEN [result EXCEPT ![f] = r.out[1]] ELSE result
           /\ breakpoints' = IF r.clear THEN <<>> ELSE breakpoints
           /\ engine' = Accept(engine, r.req)
    /\ calls' = calls + 1
    /\ UNCHANGED <<activeDebugSession, activeStackItem, activeTextEditor, dbg, prev, hsVars>>

GateReturns(f) ==
    /\ h[f].pc = "gate"
    /\ ApplyStep(f, GateResume(h[f]), engine)

BeforeReturns(f) ==
    /\ h[f].pc = "before"
    /\ ApplyStep(f, Dispatch(h[f], getCurrentDebugStateEnd(h[f].partial)), engine)

\* The awaited step/continue command returns, at any time after its
\* dispatch: waitForStateChange starts.
CommandReturns(f) ==
    /\ h[f].pc = "dispatch"
    /\ h[f].op \in StepOps
    /\ ApplyStep(f, WaitLoop([h[f] EXCEPT !.elapsed = 0, !.attempt = 0]), engine)

\* A stop or restart that takes effect on a live session is recorded in the
\* barrier flag of every call that is inside waitForStateChange.
MarkBarrier ==
    [g \in Flows |-> IF h[g].pc \in {"poll", "sleep", "final"} /\ activeDebugSession # 0
                     THEN [h[g] EXCEPT !.barrier = TRUE] ELSE h[g]]

\* vscode.debug.stopDebugging returns: the session is down.
StopReturns(f) ==
    /\ h[f].pc = "dispatch"
    /\ h[f].op = "stop_debugging"
    /\ Quiet(f)
    /\ LET r == StopFinish(h[f])
       IN  /\ h' = [MarkBarrier EXCEPT ![f] = r.h]
           /\ result' = [result EXCEPT ![f] = r.out[1]]
           /\ breakpoints' = IF r.clear THEN <<>> ELSE breakpoints
    /\ activeDebugSession' = 0
    /\ activeStackItem' = Null
    /\ dbg' = NoDebuggee
    /\ engine' = Reset(engine)
    /\ UNCHANGED <<activeTextEditor, prev, calls, hsVars>>

\* workbench.action.debug.restart returns (handleRestart then sleeps
\* executionDelay): the adapter restarts the debuggee inside the session, or
\* the session is torn down and a new one is launched; without a session the
\* command does nothing.
RestartReturns(f) ==
    /\ h[f].pc = "dispatch"
    /\ h[f].op = "restart_debugging"
    /\ Quiet(f)
    /\ h' = [MarkBarrier EXCEPT ![f] = [h[f] EXCEPT !.pc = "restartSleep"]]
    /\ \/ /\ activeDebugSession # 0
          /\ dbg' = Launched
          /\ activeStackItem' = Null
          /\ engine' = Reset(engine)
          /\ UNCHANGED activeDebugSession
       \/ /\ activeDebugSession # 0
          /\ activeDebugSession' = 0
          /\ activeStackItem' = Null
          /\ dbg' = NoDebuggee
          /\ engine' = [Reset(engine) EXCEPT !.relaunch = TRUE]
       \/ /\ activeDebugSession = 0
          /\ UNCHANGED <<activeDebugSession, activeStackItem, dbg, engine>>
    /\ UNCHANGED <<activeTextEditor, breakpoints, result, prev, calls, hsVars>>

PollReturns(f) ==
    /\ h[f].pc = "poll"
    /\ ApplyStep(f, CheckPoll(h[f], getCurrentDebugStateEnd(h[f].partial)), engine)

SleepEnds(f) ==
    /\ h[f].pc = "sleep"
    /\ \E jitter \in Jitters : ApplyStep(f, StateSleepDone(h[f], jitter), engine)

\* waitForStateChange, line 530: the query after the timeout.
FinalReturns(f) ==
    /\ h[f].pc = "final"
    /\ ApplyStep(f, ReturnState(h[f], "", getCurrentDebugStateEnd(h[f].partial), "timeout"),
                 engine)

\* handleRestart, lines 228-230.
RestartSleepEnds(f) ==
    /\ h[f].pc = "restartSleep"
    /\ ApplyStep(f, Return(h[f], "Debug session restarted successfully"), engine)

\* executor.startDebugging answers (a configuration other than coreclr):
\* true once the engine has started the session, false when the engine
\* refuses the launch.
LaunchReturns(f) ==
    /\ h[f].pc = "launch"
    /\ \/ /\ ~engine.launch
          /\ ApplyStep(f, LaunchResume(h[f], TRUE), engine)
       \/ /\ engine.launch
          /\ ApplyStep(f, LaunchResume(h[f], FALSE), [engine EXCEPT !.launch = FALSE])

ActivePollReturns(f) ==
    /\ h[f].pc = "activePoll"
    /\ ApplyStep(f, ActivePollResume(h[f]), engine)

ActiveSleepEnds(f) ==
    /\ h[f].pc = "activeSleep"
    /\ \E jitter \in Jitters : ApplyStep(f, ActiveSleepDone(h[f], jitter), engine)

StartFinalReturns(f) ==
    /\ h[f].pc = "startFinal"
    /\ ApplyStep(f, ReturnState(h[f], "Debug session started successfully",
                                getCurrentDebugStateEnd(h[f].partial), "active"), engine)

\* The scopes/variables or evaluate request answers: a result from a stopped
\* debuggee, an error otherwise.
RequestReturns(f) ==
    /\ h[f].pc = "request"
    /\ ApplyStep(f, IF activeDebugSession # 0 /\ dbg.status = "stopped"
                    THEN Return(h[f], "result")
                    ELSE Throw(h[f], <<"request failed">>), engine)

\* What the caller keeps of a response: of start_debugging and step_over,
\* whether the snapshot was active, its line, and whether the debuggee was
\* in fact stopped on that line when the response was made.
Summary(r) ==
    IF r.ok /\ r.op \in {"start_debugging", "step_over"}
    THEN [op |-> r.op, active |-> r.state[1].sessionActive, line |-> r.state[1].currentLine,
          paused |-> /\ activeDebugSession # 0
                     /\ dbg.status = "stopped"
                     /\ r.state[1].currentLine = Some(Trace[dbg.pos].line)]
    ELSE NoPrev

\* The caller receives the response.
Receive(f) ==
    /\ h[f].pc = "done"
    /\ h' = [h EXCEPT ![f] = IdleCall]
    /\ prev' = [prev EXCEPT ![f] = Summary(result[f])]
    /\ result' = [result EXCEPT ![f] = NoResponse]
    /\ UNCHANGED <<engineVars, breakpoints, calls, hsVars>>

HandlerNext(F) ==
    \E f \in F :
        \/ \E op \in OpsOf(f) : Call(f, op)
        \/ GateReturns(f)
        \/ BeforeReturns(f)
        \/ CommandReturns(f)
        \/ StopReturns(f)
        \/ RestartReturns(f)
        \/ PollReturns(f)
        \/ SleepEnds(f)
        \/ FinalReturns(f)
        \/ RestartSleepEnds(f)
        \/ LaunchReturns(f)
        \/ ActivePollReturns(f)
        \/ ActiveSleepEnds(f)
        \/ StartFinalReturns(f)
        \/ RequestReturns(f)
        \/ Receive(f)

(***************************************************************************)
(* The breakpoint operations.                                              *)
(***************************************************************************)

\* String.prototype.includes: c occurs in line as a run of characters.
includes(line, c) ==
    \E i \in 0 .. (Len(line) - Len(c)) : SubSeq(line, i + 1, i + Len(c)) = c

\* Faulty variant: the search stops at the first matching line.
matchingFirstOnly(lines, c) ==
    LET hits == {i \in 1 .. Len(lines) : includes(lines[i], c)}
    IN  IF hits = {} THEN <<>> ELSE << CHOOSE i \in hits : \A j \in hits : i <= j >>

\* handleAddBreakpoint, lines 247-253: the 1-based numbers of the lines
\* that contain c, in file order.
matchingLineNumbers(lines, c) ==
    SelectSeq([i \in 1 .. Len(lines) |-> i], LAMBDA i : includes(lines[i], c))

\* Faulty variant: the line is stored as given, 1-based.
addBreakpointOneBased(bps, path, line) ==
    Append(bps, [path |-> path, line |-> line])

\* executor.addBreakpoint: a new SourceBreakpoint at Position(line - 1, 0),
\* added to the engine's list (a new object each time: nothing is merged).
addBreakpoint(bps, path, line) ==
    Append(bps, [path |-> path, line |-> line - 1])

\* The filter of executor.removeBreakpoint and of handleRemoveBreakpoint.
IsAt(bp, path, line) == bp.path = path /\ bp.line = line - 1

\* executor.removeBreakpoint: every breakpoint at (path, line) is removed.
removeBreakpoint(bps, path, line) ==
    SelectSeq(bps, LAMBDA bp : ~IsAt(bp, path, line))

\* handleAddBreakpoint, lines 260-263: one addBreakpoint per matching line.
RECURSIVE AddAll(_, _, _)
AddAll(bps, path, m) ==
    IF m = <<>> THEN bps
    ELSE AddAll(addBreakpoint(bps, path, Head(m)), path, Tail(m))

\* The outcome of a breakpoint handler: the call, its response and the
\* engine's breakpoint list.
Outcome(l, ok, msg, text, bps) ==
    [h   |-> [l EXCEPT !.pc = "done", !.via = IF ok THEN "none" ELSE "throw"],
     out |-> [op |-> l.op, ok |-> ok, msg |-> msg, state |-> Null, text |-> text],
     bps |-> bps]

\* Faulty variant: a search without a match is reported as a success.
AddBreakpointResumeLenient(l) ==
    IF l.fileFullPath = NoFile
    THEN Outcome(l, FALSE, <<ErrorPrefix(l.op), "cannot open file">>, <<>>, breakpoints)
    ELSE LET m == matchingLineNumbers(LinesOf(l.fileFullPath), l.lineContent)
         IN  IF Len(m) = 1
             THEN Outcome(l, TRUE, <<"Breakpoint added at">>,
                          <<[at |-> l.fileFullPath, line |-> m[1]]>>,
                          AddAll(breakpoints, l.fileFullPath, m))
             ELSE Outcome(l, TRUE, <<"Breakpoints added at N locations">>,
                          <<[count |-> Len(m), at |-> l.fileFullPath, lines |-> m]>>,
                          AddAll(breakpoints, l.fileFullPath, m))

\* handleAddBreakpoint once openTextDocument has answered.
AddBreakpointResume(l) ==
    IF l.fileFullPath = NoFile
    THEN Outcome(l, FALSE, <<ErrorPrefix(l.op), "cannot open file">>, <<>>, breakpoints)
    ELSE LET m == matchingLineNumbers(LinesOf(l.fileFullPath), l.lineContent)
         IN  IF Len(m) = 0
             THEN Outcome(l, FALSE,
                          <<ErrorPrefix(l.op), "Could not find any lines containing: ">>,
                          <<[content |-> l.lineContent]>>, breakpoints)
             ELSE IF Len(m) = 1
             THEN Outcome(l, TRUE, <<"Breakpoint added at">>,
                          <<[at |-> l.fileFullPath, line |-> m[1]]>>,
                          AddAll(breakpoints, l.fileFullPath, m))
             ELSE Outcome(l, TRUE, <<"Breakpoints added at N locations">>,
                          <<[count |-> Len(m), at |-> l.fileFullPath, lines |-> m]>>,
                          AddAll(breakpoints, l.fileFullPath, m))

\* handleRemoveBreakpoint: no engine call in it is awaited, so it runs to
\* its end in one stretch.
handleRemoveBreakpoint(l) ==
    IF ~\E k \in 1 .. Len(breakpoints) : IsAt(breakpoints[k], l.fileFullPath, l.line)
    THEN Outcome(l, TRUE, <<"No breakpoint found at">>,
                 <<[at |-> l.fileFullPath, line |-> l.line]>>, breakpoints)
    ELSE Outcome(l, TRUE, <<"Breakpoint removed from">>,
                 <<[at |-> l.fileFullPath, line |-> l.line]>>,
                 removeBreakpoint(breakpoints, l.fileFullPath, l.line))

\* handleListBreakpoints: entry k is "k. fileName:line", the line 1-based.
handleListBreakpoints(l) ==
    IF Len(breakpoints) = 0
    THEN Outcome(l, TRUE, <<"No breakpoints currently set">>, <<>>, breakpoints)
    ELSE Outcome(l, TRUE, <<"Active Breakpoints:">>,
                 [k \in 1 .. Len(breakpoints) |->
                     [index |-> k, fileName |-> BaseName(breakpoints[k].path),
                      line |-> breakpoints[k].line + 1]],
                 breakpoints)

ApplyOutcome(f, r) ==
    /\ h' = [h EXCEPT ![f] = r.h]
    /\ result' = [result EXCEPT ![f] = r.out]
    /\ breakpoints' = r.bps

\* add_breakpoint is called: the handler awaits openTextDocument.
AddBreakpointCall(f, path, c) ==
    /\ h[f].pc = "idle"
    /\ calls < MaxCalls
    /\ h' = [h EXCEPT ![f] = [IdleCall EXCEPT !.op = "add_breakpoint", !.pc = "open",
                                              !.fileFullPath = path, !.lineContent = c]]
    /\ calls' = calls + 1
    /\ UNCHANGED <<engineVars, breakpoints, result, prev, hsVars>>

OpenReturns(f) ==
    /\ h[f].pc = "open"
    /\ ApplyOutcome(f, AddBreakpointResume(h[f]))
    /\ UNCHANGED <<engineVars, prev, calls, hsVars>>

RemoveBreakpointCall(f, path, line) ==
    /\ h[f].pc = "idle"
    /\ calls < MaxCalls
    /\ ApplyOutcome(f, handleRemoveBreakpoint(
                          [IdleCall EXCEPT !.op = "remove_breakpoint",
                                           !.fileFullPath = path, !.line = line]))
    /\ calls' = calls + 1
    /\ UNCHANGED <<engineVars, prev, hsVars>>

ListBreakpointsCall(f) ==
    /\ h[f].pc = "idle"
    /\ calls < MaxCalls
    /\ ApplyOutcome(f, handleListBreakpoints([IdleCall EXCEPT !.op = "list_breakpoints"]))
    /\ calls' = calls + 1
    /\ UNCHANGED <<engineVars, prev, hsVars>>

BreakpointNext(F) ==
    \E f \in F :
        \/ \E path \in Paths, c \in Contents : AddBreakpointCall(f, path, c)
        \/ OpenReturns(f)
        \/ \E path \in Paths : \E line \in 1 .. Len(LinesOf(path)) :
               RemoveBreakpointCall(f, path, line)
        \/ ListBreakpointsCall(f)
        \/ Receive(f)

Init ==
    /\ activeDebugSession = 0
    /\ activeStackItem = Null
    /\ activeTextEditor \in {Null, Some([path |-> File, line |-> 0])}
    /\ breakpoints \in {<<>>, <<[path |-> File, line |-> 1]>>}
    /\ dbg = NoDebuggee
    /\ engine = IdleEngine
    /\ h = [f \in Flows |-> IdleCall]
    /\ result = [f \in Flows |-> NoResponse]
    /\ prev = [f \in Flows |-> NoPrev]
    /\ calls = 0
    /\ hsBefore = NewDebugState
    /\ hsAfter = NewDebugState
    /\ hsResult = Null
    /\ fnIn = Null
    /\ fnOut = Null
    /\ ServerAtRest

\* The agent awaits each tool call before the next.
Next == EngineNext \/ HandlerNext({1})

Spec == Init /\ [][Next]_vars

\* The breakpoint operations on their own, each call awaited.
NextBP == BreakpointNext({1})

SpecBP == Init /\ [][NextBP]_vars

\* A caller that starts and stops sessions and manages breakpoints, each
\* call awaited; no step or continue command reaches the engine.
SessionOps == {"start_debugging", "stop_debugging"}

NextSession ==
    \/ DebuggeeStops
    \/ DebuggeeExits
    \/ UpdateStackItem
    \/ UpdateEditor
    \/ StartSession
    \/ \E op \in SessionOps : Call(1, op)
    \/ GateReturns(1)
    \/ StopReturns(1)
    \/ LaunchReturns(1)
    \/ ActivePollReturns(1)
    \/ ActiveSleepEnds(1)
    \/ StartFinalReturns(1)
    \/ BreakpointNext({1})

SpecSession == Init /\ [][NextSession]_vars

\* A second call may be in flight while the first is awaited.
NextPipelined == EngineNext \/ HandlerNext(Flows)

SpecPipelined == Init /\ [][NextPipelined]_vars

(***************************************************************************)
(* hasStateChanged on its own: every pair of snapshots the DebugState      *)
(* mutators can build from a small alphabet.                               *)
(***************************************************************************)

HsMaxLine == 2

HsPaths == {<<"test", "file.js">>, <<"other", "file.js">>}

HsTexts == {<<"let x = 5;">>, <<"let y = 10;">>}

HsFrameNames == {Null, Some("main"), Some("helper")}

\* new DebugState(); sessionActive = a; then optionally updateLocation,
\* updateContext and updateFrameName, as the executor and the tests do.
HsStates ==
    LET fresh == {[NewDebugState EXCEPT !.sessionActive = a] : a \in BOOLEAN}
        located ==
            fresh \cup
            {updateLocation(s, p, BaseName(p), n, c, <<>>) :
                s \in fresh, p \in HsPaths, n \in 1 .. HsMaxLine, c \in HsTexts}
        inContext ==
            located \cup {updateContext(s, fid, 1) : s \in located, fid \in FrameIds}
    IN  inContext \cup {updateFrameName(s, fn) : s \in inContext, fn \in HsFrameNames}

InitHSC ==
    /\ activeDebugSession = 0
    /\ activeStackItem = Null
    /\ activeTextEditor = Null
    /\ breakpoints = <<>>
    /\ dbg = NoDebuggee
    /\ engine = IdleEngine
    /\ h = [f \in Flows |-> IdleCall]
    /\ result = [f \in Flows |-> NoResponse]
    /\ prev = [f \in Flows |-> NoPrev]
    /\ calls = 0
    /\ hsBefore \in HsStates
    /\ hsAfter \in HsStates
    /\ hsResult = Null
    /\ fnIn = Null
    /\ fnOut = Null
    /\ ServerAtRest

HsApply ==
    /\ hsResult = Null
    /\ hsResult' = Some(hasStateChanged(hsBefore, hsAfter))
    /\ UNCHANGED <<engineVars, breakpoints, h, result, prev, calls, hsBefore, hsAfter,
                   fnIn, fnOut, serverVars>>

NextHSC == HsApply

SpecHSC == InitHSC /\ [][NextHSC]_vars

\* The specification's truth table: the rows in order, each a condition and
\* the result it decides.
HsRows(b, a) ==
    << [when |-> hasLocationInfo(b) /\ ~hasLocationInfo(a) /\ a.sessionActive, changed |-> FALSE],
       [when |-> b.sessionActive # a.sessionActive,                             changed |-> TRUE],
       [when |-> a.sessionActive = FALSE,                                       changed |-> TRUE],
       [when |-> hasLocationInfo(b) # hasLocationInfo(a),                       changed |-> TRUE],
       [when |-> ~hasLocationInfo(b) /\ ~hasLocationInfo(a),                    changed |-> FALSE],
       [when |-> b.fileFullPath # a.fileFullPath,                               changed |-> TRUE],
       [when |-> b.currentLine # a.currentLine,                                 changed |-> TRUE],
       [when |-> b.frameName # a.frameName,                                     changed |-> TRUE],
       [when |-> b.frameId # a.frameId,                                         changed |-> TRUE],
       [when |-> TRUE,                                                          changed |-> FALSE] >>

\* The row that decides: the first whose condition holds.
HsDecidingRow(b, a) ==
    CHOOSE i \in 1 .. 10 :
        /\ HsRows(b, a)[i].when
        /\ \A j \in 1 .. (i - 1) : ~HsRows(b, a)[j].when

\* C9: for every pair of snapshots, hasStateChanged(before, after) is the
\* result of the first matching row of the ten-row truth table.
C9_TruthTable ==
    hsResult # Null =>
        hsResult[1] = HsRows(hsBefore, hsAfter)[HsDecidingRow(hsBefore, hsAfter)].changed

\* hasStateChanged evaluated on a pair that only the frame-id row (the ninth)
\* tells apart.
C9_Witness ==
    /\ hsResult = Some(TRUE)
    /\ HsDecidingRow(hsBefore, hsAfter) = 9

\* C10: when before has location info, after has none and after is active,
\* hasStateChanged is false, although exactly one of the two has location
\* info (and whether or not the session status differs).
C10_TransientGap ==
    (/\ hsResult # Null
     /\ hasLocationInfo(hsBefore)
     /\ ~hasLocationInfo(hsAfter)
     /\ hsAfter.sessionActive)
        => /\ hsResult[1] = FALSE
           /\ hasLocationInfo(hsBefore) # hasLocationInfo(hsAfter)

\* A transient gap evaluated: before located, after active without location.
C10_Witness ==
    /\ hsResult = Some(FALSE)
    /\ hasLocationInfo(hsBefore)
    /\ ~hasLocationInfo(hsAfter)
    /\ hsAfter.sessionActive
    /\ hsBefore.sessionActive


\* C11: when before is session-active and after is not, hasStateChanged is
\* true whatever the other fields of the two snapshots are.
C11_SessionEnd ==
    (/\ hsResult # Null
     /\ hsBefore.sessionActive
     /\ ~hsAfter.sessionActive)
        => hsResult[1] = TRUE

\* The session-status test of the test suite: after is the clone of a
\* located, active before with sessionActive set to false.
C11_Witness ==
    /\ hsResult = Some(TRUE)
    /\ hsBefore.sessionActive
    /\ hasLocationInfo(hsBefore)
    /\ hsAfter = [clone(hsBefore) EXCEPT !.sessionActive = FALSE]

\* The two snapshots agree on every field but currentLine.
HsDifferOnlyInLine ==
    /\ hsBefore.currentLine # hsAfter.currentLine
    /\ hsAfter = [hsBefore EXCEPT !.currentLine = hsAfter.currentLine]

\* C12: for two snapshots identical except for currentLine, hasStateChanged
\* is true.
C12_LineChange ==
    (hsResult # Null /\ HsDifferOnlyInLine) => hsResult[1] = TRUE

\* Two active snapshots on different lines of the same file, same text,
\* context and frame name, evaluated.
C12_Witness ==
    /\ hsResult = Some(TRUE)
    /\ HsDifferOnlyInLine
    /\ hsBefore.sessionActive
    /\ hsBefore.frameId # Null
    /\ hsBefore.frameName # Null

\* The two snapshots agree on every field but frameName.
HsDifferOnlyInFrameName ==
    /\ hsBefore.frameName # hsAfter.frameName
    /\ hsAfter = [hsBefore EXCEPT !.frameName = hsAfter.frameName]

\* C13 as stated: for two snapshots identical except for frameName,
\* hasStateChanged is true.
C13_Original ==
    (hsResult # Null /\ HsDifferOnlyInFrameName) => hsResult[1] = TRUE

\* C13 amended: for two snapshots identical except for frameName,
\* hasStateChanged is true when they have location info or are inactive, and
\* false when they are session-active without location info.
C13_FrameNameChange ==
    (hsResult # Null /\ HsDifferOnlyInFrameName) =>
        hsResult[1] = (hasLocationInfo(hsBefore) \/ ~hsBefore.sessionActive)

\* Two active snapshots without location info that differ in frame name only,
\* evaluated as unchanged.
C13_Witness ==
    /\ hsResult = Some(FALSE)
    /\ HsDifferOnlyInFrameName
    /\ hsBefore.sessionActive
    /\ ~hasLocationInfo(hsBefore)

\* C14 as stated: a snapshot and its clone are never reported as changed.
C14_Original ==
    (hsResult # Null /\ hsAfter = clone(hsBefore)) => hsResult[1] = FALSE

\* C14 amended: a session-active snapshot and its clone are not reported as
\* changed; an inactive snapshot and its clone are.
C14_IdempotentRead ==
    (hsResult # Null /\ hsAfter = clone(hsBefore)) =>
        hsResult[1] = ~hsBefore.sessionActive

\* A snapshot of no session and its clone, evaluated as changed.
C14_Witness ==
    /\ hsResult = Some(TRUE)
    /\ hsAfter = clone(hsBefore)
    /\ hsBefore = NewDebugState

\* C15: when neither snapshot has location info, both are session-active and
\* their frame ids are equal, hasStateChanged is false.
C15_NoLocationEither ==
    (/\ hsResult # Null
     /\ ~hasLocationInfo(hsBefore)
     /\ ~hasLocationInfo(hsAfter)
     /\ hsBefore.sessionActive
     /\ hsAfter.sessionActive
     /\ hsBefore.frameId = hsAfter.frameId)
        => hsResult[1] = FALSE

\* Two active snapshots without location info, in the same frame id but with
\* different frame names, evaluated.
C15_Witness ==
    /\ hsResult = Some(FALSE)
    /\ ~hasLocationInfo(hsBefore)
    /\ ~hasLocationInfo(hsAfter)
    /\ hsBefore.sessionActive
    /\ hsAfter.sessionActive
    /\ hsBefore.frameId = hsAfter.frameId
    /\ hsBefore.frameId # Null
    /\ hsBefore.frameName # hsAfter.frameName

(***************************************************************************)
(* hasStateChanged on pairs of session-active snapshots with location      *)
(* info, every argument of updateLocation and updateContext varied on its  *)
(* own.                                                                    *)
(***************************************************************************)

HsFileNames == {"file.js", "file2.js"}

HsNextLines == {<<>>, << <<"let z = 0;">> >>}

HsContexts == {[frameId |-> 1, threadId |-> 1], [frameId |-> 2, threadId |-> 1],
               [frameId |-> 1, threadId |-> 2]}

HsLocatedStates ==
    LET active == [NewDebugState EXCEPT !.sessionActive = TRUE]
        located == {updateLocation(active, p, fn, n, c, nl) :
                       p \in HsPaths, fn \in HsFileNames, n \in 1 .. HsMaxLine,
                       c \in HsTexts, nl \in HsNextLines}
        inContext == {updateContext(s, cx.frameId, cx.threadId) :
                         s \in located, cx \in HsContexts}
    IN  {updateFrameName(s, fn) : s \in inContext, fn \in HsFrameNames}

InitHSL ==
    /\ activeDebugSession = 0
    /\ activeStackItem = Null
    /\ activeTextEditor = Null
    /\ breakpoints = <<>>
    /\ dbg = NoDebuggee
    /\ engine = IdleEngine
    /\ h = [f \in Flows |-> IdleCall]
    /\ result = [f \in Flows |-> NoResponse]
    /\ prev = [f \in Flows |-> NoPrev]
    /\ calls = 0
    /\ hsBefore \in HsLocatedStates
    /\ hsAfter \in HsLocatedStates
    /\ hsResult = Null
    /\ fnIn = Null
    /\ fnOut = Null
    /\ ServerAtRest

SpecHSL == InitHSL /\ [][NextHSC]_vars

\* C16: for two session-active snapshots with location info, hasStateChanged
\* is true exactly when they differ in file path, line, frame name or frame
\* id; file name, line text, look-ahead lines and thread id do not count.
C16_LocatedPairs ==
    (/\ hsResult # Null
     /\ hsBefore.sessionActive /\ hsAfter.sessionActive
     /\ hasLocationInfo(hsBefore) /\ hasLocationInfo(hsAfter))
        => hsResult[1] = (\/ hsBefore.fileFullPath # hsAfter.fileFullPath
                          \/ hsBefore.currentLine # hsAfter.currentLine
                          \/ hsBefore.frameName # hsAfter.frameName
                          \/ hsBefore.frameId # hsAfter.frameId)

\* Two located, active snapshots that differ in file name, line text,
\* look-ahead lines and thread id and in nothing else, evaluated as unchanged.
C16_Witness ==
    /\ hsResult = Some(FALSE)
    /\ hsBefore.sessionActive /\ hsAfter.sessionActive
    /\ hasLocationInfo(hsBefore) /\ hasLocationInfo(hsAfter)
    /\ hsBefore.fileName # hsAfter.fileName
    /\ hsBefore.currentLineContent # hsAfter.currentLineContent
    /\ hsBefore.nextLines # hsAfter.nextLines
    /\ hsBefore.threadId # hsAfter.threadId

(***************************************************************************)
(* Properties of the tool calls.                                           *)
(***************************************************************************)

\* The response flow f has just been handed, if any.
Returned(f) == h[f].pc = "done"

\* The snapshot embedded in the response of flow f.
Snapshot(f) == result[f].state[1]

\* C1: a step_over that follows a start_debugging or step_over response made
\* while the debuggee was stopped on the reported line returns a snapshot of
\* an ended session or one located on a strictly greater line.
C1_StepOverAdvances ==
    (/\ Returned(1)
     /\ result[1].op = "step_over"
     /\ result[1].ok
     /\ prev[1].paused)
        => \/ ~Snapshot(1).sessionActive
           \/ /\ hasLocationInfo(Snapshot(1))
              /\ Snapshot(1).currentLine[1] > prev[1].line[1]

\* C2: with a breakpoint set on line 2 before the call and the debuggee
\* stopped on it, a successful start_debugging response embeds a snapshot
\* located on that line with its source text.
C2_StartAtBreakpoint ==
    (/\ Returned(1)
     /\ result[1].op = "start_debugging"
     /\ result[1].ok
     /\ HasBreakpoint(2)
     /\ activeDebugSession # 0
     /\ dbg.status = "stopped"
     /\ Trace[dbg.pos].line = 2)
        => /\ result[1].msg = <<"Debug session started successfully">>
           /\ hasLocationInfo(Snapshot(1))
           /\ Snapshot(1).currentLine = Some(2)
           /\ Snapshot(1).currentLineContent = Some(Trim(Doc[2]))
           /\ [lineNo |-> 2, src |-> Trim(Doc[2])] \in
                 {result[1].text[k] : k \in 1 .. Len(result[1].text)}

\* C3: a step call that returns from inside the loop of waitForStateChange
\* does so before the timeout, with the snapshot of its last poll, which is
\* changed against the before-state or inactive, and no earlier poll of the
\* call met either condition.
C3_FirstChangedPoll ==
    \A f \in Flows :
        (Returned(f) /\ h[f].via \in {"changed", "ended"})
            => /\ h[f].elapsed < TimeoutInSeconds * 1000
               /\ result[f].ok
               /\ result[f].state = h[f].lastPoll
               /\ \/ hasStateChanged(h[f].beforeState, Snapshot(f))
                  \/ ~Snapshot(f).sessionActive
               /\ ~h[f].missed

\* A step call returned a changed, located snapshot after at least one poll
\* that showed no change.
C3_Witness ==
    /\ Returned(1)
    /\ h[1].via = "changed"
    /\ h[1].attempt >= 1
    /\ Snapshot(1).sessionActive
    /\ hasLocationInfo(Snapshot(1))
    /\ hasStateChanged(h[1].beforeState, Snapshot(1))

\* C4: waitForStateChange polls only while the timeout has not elapsed, each
\* sleep advances the clock by at least a second, so the loop ends after at
\* most TimeoutInSeconds sleeps and within the timeout plus one poll interval
\* (1000 ms and the jitter); on timeout the call returns the snapshot of one
\* more query, formatted, and a step call that passed the gate never fails.
C4_TimeoutFallback ==
    \A f \in Flows :
        h[f].op \in StepOps =>
            /\ h[f].pc \in {"poll", "sleep", "final"} \/ (Returned(f) /\ h[f].gate = Some(TRUE))
                  => /\ h[f].attempt * 1000 <= h[f].elapsed
                     /\ h[f].elapsed < TimeoutInSeconds * 1000 + 1000 + 200
            /\ h[f].pc \in {"poll", "sleep"} => h[f].elapsed < TimeoutInSeconds * 1000
            /\ h[f].pc = "final" => h[f].elapsed >= TimeoutInSeconds * 1000
            /\ (Returned(f) /\ h[f].gate = Some(TRUE))
                  => /\ result[f].ok
                     /\ result[f].state # Null
                     /\ result[f].text = formatDebugState(Snapshot(f))
                     /\ h[f].via \in {"changed", "ended", "timeout"}
                     /\ h[f].via = "timeout" => h[f].elapsed >= TimeoutInSeconds * 1000

\* A step call returned on timeout a snapshot that shows no change.
C4_Witness ==
    /\ Returned(1)
    /\ h[1].op \in StepOps
    /\ h[1].via = "timeout"
    /\ result[1].ok
    /\ ~hasStateChanged(h[1].beforeState, Snapshot(1))

\* C5: once a poll of waitForStateChange has seen an inactive snapshot, the
\* call has returned, with that snapshot: it neither sleeps nor polls again.
C5_EndedAtOnce ==
    \A f \in Flows :
        (/\ h[f].op \in StepOps
         /\ h[f].lastPoll # Null
         /\ ~h[f].lastPoll[1].sessionActive)
            => /\ Returned(f)
               /\ result[f].ok
               /\ result[f].state = h[f].lastPoll

\* A step call whose before-state was located returned the inactive snapshot
\* of a poll that followed at least one sleep.
C5_Witness ==
    /\ Returned(1)
    /\ h[1].op \in StepOps
    /\ h[1].attempt >= 1
    /\ hasLocationInfo(h[1].beforeState)
    /\ h[1].lastPoll # Null
    /\ ~h[1].lastPoll[1].sessionActive

\* C6: a step call that was inside waitForStateChange when a stop or restart
\* took effect returns a snapshot with sessionActive = false.
C6_Barrier ==
    (/\ Returned(1)
     /\ h[1].op \in StepOps
     /\ h[1].barrier)
        => ~Snapshot(1).sessionActive

\* C7: start_debugging whose launch reports failure fails with the launch
\* error before any readiness poll or sleep; one whose launch reports success
\* fails only after the timeout, with the other error, no readiness poll
\* having returned true; it succeeds only after a poll that returned true.
C7_StartFailures ==
    (Returned(1) /\ result[1].op = "start_debugging") =>
        /\ h[1].started = Some(FALSE)
              => /\ ~result[1].ok
                 /\ result[1].msg = <<"Error starting debug session: ",
                                      "Failed to start debug session.",
                                      "Make sure the appropriate language extension is installed.">>
                 /\ h[1].attempt = 0
                 /\ h[1].elapsed = 0
                 /\ h[1].lastPoll = Null
        /\ (h[1].started = Some(TRUE) /\ ~result[1].ok)
              => /\ result[1].msg = <<"Error starting debug session: ",
                                      "Debug session started but failed to become active within timeout period">>
                 /\ h[1].elapsed >= TimeoutInSeconds * 1000
                 /\ ~h[1].missed
                 /\ h[1].lastPoll # Null => ~h[1].lastPoll[1].sessionActive
        /\ result[1].ok
              => /\ h[1].started = Some(TRUE)
                 /\ h[1].lastPoll # Null
                 /\ h[1].lastPoll[1].sessionActive
                 /\ h[1].elapsed < TimeoutInSeconds * 1000

\* start_debugging failed after a successful launch and at least one
\* readiness poll.
C7_Witness ==
    /\ Returned(1)
    /\ result[1].op = "start_debugging"
    /\ h[1].started = Some(TRUE)
    /\ ~result[1].ok
    /\ h[1].lastPoll # Null

\* C8 as stated: each of the eight gated operations, called while
\* hasActiveSession() is false, fails with a not-ready error that tells the
\* caller to start debugging first.
C8_Original ==
    (/\ Returned(1)
     /\ h[1].op \in GatedOps
     /\ h[1].gate = Some(FALSE))
        => /\ ~result[1].ok
           /\ \E k \in 1 .. Len(result[1].msg) :
                 result[1].msg[k] = "Start debugging first and ensure execution is paused."

\* C8 amended: called while hasActiveSession() is false, none of the eight
\* operations sends a command to the engine; stop_debugging returns the text
\* 'No active debug session to stop'; the other seven fail: the step and
\* continue operations with 'Debug session is not ready. Please wait for
\* initialization to complete.', restart_debugging with 'No active debug
\* session to restart', get_variables_values and evaluate_expression with
\* 'Debug session is not ready. Start debugging first and ensure execution
\* is paused.'
C8_NotReady ==
    (/\ h[1].op \in GatedOps
     /\ h[1].gate = Some(FALSE))
        => /\ Returned(1)
           /\ h[1].beforeState = NewDebugState
           /\ h[1].lastPoll = Null
           /\ result[1].state = Null
           /\ IF h[1].op = "stop_debugging"
              THEN result[1].ok /\ result[1].msg = <<"No active debug session to stop">>
              ELSE /\ ~result[1].ok
                   /\ result[1].msg =
                         <<ErrorPrefix(h[1].op)>> \o
                         (CASE h[1].op \in StepOps ->
                                 <<"Debug session is not ready.",
                                   "Please wait for initialization to complete.">>
                            [] h[1].op = "restart_debugging" ->
                                 <<"No active debug session to restart">>
                            [] OTHER ->
                                 <<"Debug session is not ready.",
                                   "Start debugging first and ensure execution is paused.">>)

\* stop_debugging called without a session returned its text.
C8_Witness ==
    /\ Returned(1)
    /\ h[1].op = "stop_debugging"
    /\ h[1].gate = Some(FALSE)
    /\ result[1].ok

(***************************************************************************)
(* Properties of the breakpoint tools.                                     *)
(***************************************************************************)

\* The lines of the document at path that contain c.
MatchingLines(path, c) ==
    {i \in 1 .. Len(LinesOf(path)) : includes(LinesOf(path)[i], c)}

\* add_breakpoint of flow f has just answered with a success.
AddedOk(f) ==
    /\ h[f].pc = "done"
    /\ h[f].op = "add_breakpoint"
    /\ result[f].ok

\* The 1-based lines the success response of add_breakpoint names.
ReportedLines(r) ==
    IF r.msg = <<"Breakpoint added at">>
    THEN {r.text[1].line}
    ELSE {r.text[1].lines[k] : k \in 1 .. Len(r.text[1].lines)}

\* C17: a successful add_breakpoint(file, lineContent) keeps the breakpoints
\* there were and adds one breakpoint per line of the file that contains
\* lineContent, in that file and on no other line; the lines it reports are
\* exactly those lines, and the count it reports is their number.
C17_MultiMatch ==
    [][\A f \in Flows :
         (h[f].pc = "open" /\ AddedOk(f)') =>
             LET path  == h[f].fileFullPath
                 M     == MatchingLines(path, h[f].lineContent)
                 old   == Len(breakpoints)
                 added == SubSeq(breakpoints', old + 1, Len(breakpoints'))
                 r     == result'[f]
             IN  /\ SubSeq(breakpoints', 1, old) = breakpoints
                 /\ Len(added) = Cardinality(M)
                 /\ {added[k].line + 1 : k \in 1 .. Len(added)} = M
                 /\ \A k \in 1 .. Len(added) : added[k].path = path
                 /\ ReportedLines(r) = M
                 /\ r.msg = <<"Breakpoint added at">> => Cardinality(M) = 1
                 /\ r.msg # <<"Breakpoint added at">> => r.text[1].count = Cardinality(M)
    ]_vars

C17_Witness ==
    /\ AddedOk(1)
    /\ h[1].fileFullPath = File2
    /\ result[1].msg = <<"Breakpoints added at N locations">>
    /\ result[1].text[1].count = 3
    /\ result[1].text[1].lines = <<1, 2, 4>>
    /\ Len(breakpoints) >= 3

\* A breakpoint is set at (path, 1-based line), as list_breakpoints counts lines.
FoundAt(path, line) ==
    \E k \in 1 .. Len(breakpoints) :
        breakpoints[k].path = path /\ breakpoints[k].line + 1 = line

\* C18: add_breakpoint on a file that opens and has no line containing
\* lineContent fails with 'Could not find any lines containing' and adds no
\* breakpoint; remove_breakpoint(file, line) with no breakpoint at
\* (file, line) answers 'No breakpoint found' and removes nothing.
C18_TargetNotFound ==
    [][\A f \in Flows :
         /\ ( /\ h[f].pc = "open"
              /\ h[f].fileFullPath # NoFile
              /\ MatchingLines(h[f].fileFullPath, h[f].lineContent) = {}
              /\ h'[f].pc = "done" )
            => /\ ~result'[f].ok
               /\ result'[f].msg = <<"Error adding breakpoint: ",
                                     "Could not find any lines containing: ">>
               /\ breakpoints' = breakpoints
         /\ ( /\ h[f].pc = "idle"
              /\ h'[f].op = "remove_breakpoint"
              /\ ~FoundAt(h'[f].fileFullPath, h'[f].line) )
            => /\ result'[f].ok
               /\ result'[f].msg = <<"No breakpoint found at">>
               /\ breakpoints' = breakpoints
    ]_vars

C18_Witness ==
    /\ h[1].pc = "done"
    /\ h[1].op = "add_breakpoint"
    /\ h[1].fileFullPath = File2
    /\ result[1].msg = <<"Error adding breakpoint: ", "Could not find any lines containing: ">>
    /\ Len(breakpoints) >= 3

\* A remove_breakpoint(path, line) call of the caller.
RemoveArgs(path, line) ==
    [IdleCall EXCEPT !.op = "remove_breakpoint", !.fileFullPath = path, !.line = line]

\* remove_breakpoint of flow f has just answered 'Breakpoint removed'.
RemovedOk(f) ==
    /\ h[f].pc = "done"
    /\ h[f].op = "remove_breakpoint"
    /\ result[f].msg = <<"Breakpoint removed from">>

\* C19: once add_breakpoint has answered with line n of file f,
\* list_breakpoints has an entry with line n of that file, and
\* remove_breakpoint(f, n) answers 'Breakpoint removed', leaves no breakpoint
\* at (f, n) and keeps every breakpoint at another (file, line), in order;
\* once remove_breakpoint(f, n) has answered 'Breakpoint removed', the same
\* call answers 'No breakpoint found'.
C19_RoundTrip ==
    \A f \in Flows :
        /\ AddedOk(f) =>
              \A n \in ReportedLines(result[f]) :
                  LET path    == h[f].fileFullPath
                      listed  == handleListBreakpoints(IdleCall).out.text
                      removal == handleRemoveBreakpoint(RemoveArgs(path, n))
                  IN  /\ \E k \in 1 .. Len(listed) :
                             /\ listed[k].fileName = BaseName(path)
                             /\ listed[k].line = n
                             /\ listed[k].index = k
                      /\ removal.out.msg = <<"Breakpoint removed from">>
                      /\ removal.bps =
                             SelectSeq(breakpoints,
                                       LAMBDA bp : ~(bp.path = path /\ bp.line + 1 = n))
        /\ RemovedOk(f) =>
              /\ ~FoundAt(h[f].fileFullPath, h[f].line)
              /\ handleRemoveBreakpoint(RemoveArgs(h[f].fileFullPath, h[f].line)).out.msg
                     = <<"No breakpoint found at">>

\* add_breakpoint set breakpoints in the second document, and the one on a
\* line of it has been removed while others remain.
C19_Witness ==
    /\ RemovedOk(1)
    /\ h[1].fileFullPath = File2
    /\ \E k \in 1 .. Len(breakpoints) : breakpoints[k].path = File2

\* stop_debugging of flow f answers in this step that the session stopped.
StopSucceeds(f) ==
    /\ h[f].pc # "done"
    /\ h'[f].pc = "done"
    /\ h'[f].op = "stop_debugging"
    /\ result'[f].ok
    /\ result'[f].msg # <<"No active debug session to stop">>

\* C20: when stop_debugging answers that the session stopped, no breakpoint
\* is left; with breakpoints set when it answers, the response is
\* 'Cleared N breakpoint(s)' with N their number, and without any the
\* response names no count.
C20_StopClears ==
    [][\A f \in Flows :
         StopSucceeds(f) =>
             /\ breakpoints' = <<>>
             /\ Len(breakpoints) > 0 =>
                   /\ result'[f].msg =
                        <<"Debug session stopped successfully. Cleared N breakpoint(s).">>
                   /\ result'[f].text = <<[count |-> Len(breakpoints)]>>
             /\ Len(breakpoints) = 0 =>
                   /\ result'[f].msg = <<"Debug session stopped successfully">>
                   /\ result'[f].text = <<>>
    ]_vars

\* Three or more breakpoints, set by add_breakpoint, were cleared by the stop.
C20_Witness ==
    /\ h[1].pc = "done"
    /\ h[1].op = "stop_debugging"
    /\ result[1].msg = <<"Debug session stopped successfully. Cleared N breakpoint(s).">>
    /\ result[1].text[1].count >= 3
    /\ breakpoints = <<>>


(***************************************************************************)
(* formatDebugState on its own: every DebugState whose fields are set or   *)
(* absent independently of one another.                                    *)
(***************************************************************************)

\* The program before any session and any call.
AtRest ==
    /\ activeDebugSession = 0
    /\ activeStackItem = Null
    /\ activeTextEditor = Null
    /\ breakpoints = <<>>
    /\ dbg = NoDebuggee
    /\ engine = IdleEngine
    /\ h = [f \in Flows |-> IdleCall]
    /\ result = [f \in Flows |-> NoResponse]
    /\ prev = [f \in Flows |-> NoPrev]
    /\ calls = 0
    /\ hsBefore = NewDebugState
    /\ hsAfter = NewDebugState
    /\ hsResult = Null
    /\ ServerAtRest

FmtFrameNames == HsFrameNames \cup {Some("")}

FmtStates ==
    {[NewDebugState EXCEPT !.sessionActive = a, !.fileFullPath = p, !.fileName = fn,
                           !.currentLine = n, !.currentLineContent = c,
                           !.frameId = fid, !.threadId = fid, !.frameName = name] :
        a \in BOOLEAN, p \in {Null, Some(File)}, fn \in {Null, Some("test.py")},
        n \in {Null, Some(1)}, c \in {Null, Some(<<"a = 1">>)},
        fid \in {Null, Some(1)}, name \in FmtFrameNames}

InitFmt ==
    /\ AtRest
    /\ fnIn \in FmtStates
    /\ fnOut = Null

FmtApply ==
    /\ fnOut = Null
    /\ fnOut' = Some(formatDebugState(fnIn))
    /\ UNCHANGED <<engineVars, breakpoints, h, result, prev, calls, hsBefore, hsAfter,
                   hsResult, fnIn, serverVars>>

NextFmt == FmtApply

SpecFmt == InitFmt /\ [][NextFmt]_vars

NotActiveText == << [fixed |-> "Debug session is not active"] >>

NoLocationNotice ==
    [fixed |-> "No location information available. The session might have stopped or ended"]

\* The lines of text that have the field name.
LinesWith(text, name) == {k \in 1 .. Len(text) : name \in DOMAIN text[k]}

\* C21: formatDebugState yields a non-empty text for every DebugState; the
\* text is exactly 'Debug session is not active' when sessionActive is
\* false, whatever the other fields hold; for an active snapshot without
\* location info it has the 'No location information available' notice and
\* no File or Line line; for an active snapshot it has one 'Frame:' line
\* when frameName is non-null and none otherwise.
C21_FormatterTotal ==
    fnOut # Null =>
        LET text == fnOut[1]
        IN  /\ Len(text) > 0
            /\ ~fnIn.sessionActive => text = NotActiveText
            /\ (fnIn.sessionActive /\ ~hasLocationInfo(fnIn)) =>
                  /\ \E k \in 1 .. Len(text) : text[k] = NoLocationNotice
                  /\ LinesWith(text, "file") = {}
                  /\ LinesWith(text, "line") = {}
                  /\ LinesWith(text, "lineNo") = {}
            /\ (fnIn.sessionActive /\ hasLocationInfo(fnIn)) =>
                  /\ \A k \in 1 .. Len(text) : text[k] # NoLocationNotice
                  /\ LinesWith(text, "file") # {}
            /\ fnIn.sessionActive =>
                  Cardinality(LinesWith(text, "frame")) =
                      (IF fnIn.frameName # Null THEN 1 ELSE 0)

\* An inactive snapshot that still carries a location and a frame name.
C21_Witness ==
    /\ fnOut = Some(NotActiveText)
    /\ hasLocationInfo(fnIn)
    /\ fnIn.frameName # Null


(***************************************************************************)
(* Engine calls that fail.  The awaited engine call of a command may       *)
(* reject; the executor wraps the error and the handler's catch rethrows   *)
(* it.  For a configuration of type coreclr, startDebugging does not await *)
(* the command that launches the session.                                  *)
(***************************************************************************)

\* The executor's wrapping of a rejected engine call.
FailedTo(op) ==
    CASE op = "start_debugging"     -> "Failed to start debugging: "
      [] op = "stop_debugging"      -> "Failed to stop debugging: "
      [] op = "step_over"           -> "Failed to step over: "
      [] op = "step_into"           -> "Failed to step into: "
      [] op = "step_out"            -> "Failed to step out: "
      [] op = "continue_execution"  -> "Failed to continue: "
      [] op = "restart_debugging"   -> "Failed to restart: "

\* The engine call awaited by the command of flow f rejects.
CommandRejects(f) ==
    /\ h[f].pc \in {"dispatch", "launch"}
    /\ ApplyStep(f, Throw([h[f] EXCEPT !.rejected = TRUE], <<FailedTo(h[f].op)>>),
                 IF h[f].pc = "launch" THEN [engine EXCEPT !.launch = FALSE] ELSE engine)

\* executor.startDebugging, lines 105-110: 'testing.debugCurrentFile' is
\* issued without await and true is returned at once; the command starts
\* the session later, or rejects with nobody to see it.
LaunchDetached(f) ==
    /\ h[f].pc = "launch"
    /\ engine.launch
    /\ \E rejects \in BOOLEAN :
          ApplyStep(f, LaunchResume([h[f] EXCEPT !.rejected = rejects], TRUE),
                    IF rejects THEN [engine EXCEPT !.launch = FALSE] ELSE engine)

NextReject == Next \/ CommandRejects(1) \/ LaunchDetached(1)

SpecReject == Init /\ [][NextReject]_vars

\* C22: a call whose engine command rejected answers with an error that
\* starts with the prefix naming its operation, never with a success text.
C22_NeverSwallowed ==
    \A f \in Flows :
        (Returned(f) /\ h[f].rejected) =>
            /\ ~result[f].ok
            /\ result[f].msg[1] = ErrorPrefix(h[f].op)


(***************************************************************************)
(* Properties of the order of queries and commands.                        *)
(***************************************************************************)

\* The awaits at which a snapshot query of the call is outstanding.
QueryPcs == {"gate", "before", "poll", "final", "activePoll", "startFinal"}

\* C23: in step_over, step_into, step_out and continue_execution the
\* command is dispatched in the step in which the before-snapshot query
\* completes, after it: the before-state is the snapshot of the engine as it
\* was before the command reached it, and no earlier step of the call
\* sends the engine anything; a poll of waitForStateChange starts only from the
\* dispatch or from a later point of the loop; a partly built snapshot
\* exists only while the call is suspended in a query, so that a call has at
\* most one query outstanding.
C23_BeforeThenDispatch ==
    [][\A f \in Flows :
         LET a == h[f]
             b == h'[f]
         IN  b.op \in StepOps =>
               /\ (a.pc # "dispatch" /\ b.pc = "dispatch") =>
                     /\ a.pc \in {"idle", "gate", "before"}
                     /\ b.beforeState =
                            (IF a.pc = "before" THEN getCurrentDebugStateEnd(a.partial)
                             ELSE getCurrentDebugStateBegin.state)
                     /\ engine' = Accept(engine, Some(CommandOf(b.op)))
               /\ (a # b /\ a.pc \in {"idle", "gate", "before"} /\ b.pc # "dispatch") =>
                     engine' = engine
               /\ (b.pc \in {"poll", "sleep", "final"} /\ a.pc # b.pc) =>
                     a.pc \in {"dispatch", "poll", "sleep"}
               /\ b.partial # NewDebugState => b.pc \in QueryPcs
    ]_vars

\* A poll is outstanding after a dispatch whose before-state has a location.
C23_Witness ==
    /\ h[1].op \in StepOps
    /\ h[1].pc = "poll"
    /\ hasLocationInfo(h[1].beforeState)
    /\ h[1].attempt > 0


(***************************************************************************)
(* getCurrentDebugState and hasActiveSession with requests that fail: the  *)
(* stackTrace request may throw or answer without frames, and reading the  *)
(* editor's document may throw.                                            *)
(***************************************************************************)

\* What customRequest('stackTrace') can answer now: an error, no frames, or
\* (with a stopped debuggee) the top frame, whose name may be empty.
StackTraceAnswers ==
    {[kind |-> "throws", name |-> Null], [kind |-> "empty", name |-> Null]}
    \cup (IF activeDebugSession # 0 /\ dbg.status = "stopped"
          THEN {[kind |-> "frames", name |-> Some(Trace[dbg.pos].name)],
                [kind |-> "frames", name |-> Null]}
          ELSE {})

\* extractFrameName on a given answer: `currentFrame.name || null`, nothing
\* without frames, null in the catch.
extractFrameNameOn(state, answer) ==
    IF answer.kind = "throws" THEN updateFrameName(state, Null)
    ELSE IF answer.kind = "empty" THEN state
    ELSE updateFrameName(state, answer.name)

\* Faulty variant: an error of the stackTrace request ends the whole read.
getCurrentDebugStateResumeOuterCatch(partial, answer, editorThrows) ==
    IF answer.kind = "throws" THEN partial
    ELSE LET s == extractFrameNameOn(partial, answer)
         IN  IF activeTextEditor # Null /\ ~editorThrows
             THEN LET ed == activeTextEditor[1]
                  IN  updateLocation(s, ed.path, BaseName(ed.path), ed.line + 1,
                                     Trim(Doc[ed.line + 1]), NextLinesOf(ed.line))
             ELSE s

\* getCurrentDebugState from the stackTrace answer on (lines 244-272): an
\* exception while the editor is read is caught by the outer catch, which
\* returns the state as far as it was filled.
getCurrentDebugStateResume(partial, answer, editorThrows) ==
    LET s == extractFrameNameOn(partial, answer)
    IN  IF activeTextEditor # Null /\ ~editorThrows
        THEN LET ed == activeTextEditor[1]
             IN  updateLocation(s, ed.path, BaseName(ed.path), ed.line + 1,
                                Trim(Doc[ed.line + 1]), NextLinesOf(ed.line))
        ELSE s

QueryOps == {"getCurrentDebugState", "hasActiveSession"}

\* The response of a query: the snapshot, and for hasActiveSession its
\* answer debugState.sessionActive in gate.
Answer(l, state) ==
    [h   |-> [l EXCEPT !.pc = "done", !.partial = NewDebugState,
                       !.gate = IF l.op = "hasActiveSession"
                                THEN Some(state.sessionActive) ELSE Null],
     out |-> [op |-> l.op, ok |-> TRUE, msg |-> <<>>, state |-> Some(state), text |-> <<>>]]

\* hasActiveSession (lines 386-405) or getCurrentDebugState is called.
QueryEntry(l) ==
    IF l.op = "hasActiveSession" /\ activeDebugSession = 0
    THEN [Answer(l, NewDebugState) EXCEPT !.h.gate = Some(FALSE)]
    ELSE LET q == getCurrentDebugStateBegin
         IN  IF q.done THEN Answer(l, q.state)
             ELSE [h |-> [l EXCEPT !.pc = "query", !.partial = q.state], out |-> NoResponse]

QueryCall(f, op) ==
    /\ h[f].pc = "idle"
    /\ calls < MaxCalls
    /\ LET r == QueryEntry([IdleCall EXCEPT !.op = op])
       IN  /\ h' = [h EXCEPT ![f] = r.h]
           /\ result' = [result EXCEPT ![f] = r.out]
    /\ calls' = calls + 1
    /\ UNCHANGED <<engineVars, breakpoints, prev, hsVars>>

\* The stackTrace request is answered and the rest of the read runs.
QueryReturns(f) ==
    /\ h[f].pc = "query"
    /\ \E answer \in StackTraceAnswers :
       \E editorThrows \in {FALSE, activeTextEditor # Null} :
          LET l == [h[f] EXCEPT !.stackThrew = (answer.kind = "throws"),
                                !.editorThrew = editorThrows]
              r == Answer(l, getCurrentDebugStateResume(h[f].partial, answer, editorThrows))
          IN  /\ h' = [h EXCEPT ![f] = r.h]
              /\ result' = [result EXCEPT ![f] = r.out]
    /\ UNCHANGED <<engineVars, breakpoints, prev, calls, hsVars>>

\* Sessions are started and stopped, the debuggee runs into breakpoints,
\* and the state is queried at any point; each call awaited.
NextQuery ==
    \/ DebuggeeStops
    \/ DebuggeeExits
    \/ UpdateStackItem
    \/ UpdateEditor
    \/ StartSession
    \/ \E op \in SessionOps : Call(1, op)
    \/ GateReturns(1)
    \/ StopReturns(1)
    \/ LaunchReturns(1)
    \/ ActivePollReturns(1)
    \/ ActiveSleepEnds(1)
    \/ StartFinalReturns(1)
    \/ \E op \in QueryOps : QueryCall(1, op)
    \/ QueryReturns(1)
    \/ Receive(1)

SpecQuery == Init /\ [][NextQuery]_vars

\* A query of flow f has just returned the snapshot s.
Queried(f) ==
    /\ h[f].pc = "done"
    /\ h[f].op \in QueryOps
    /\ result[f].state # Null


\* C24: getCurrentDebugState always returns a snapshot.  When its
\* stackTrace request threw, frameName is absent, the execution context is
\* there and the location is filled in from the editor as without the
\* failure.  When reading the editor threw, the location is absent while
\* sessionActive, the execution context and the frame name obtained before
\* are kept.
C24_DegradesGracefully ==
    \A f \in Flows :
        (h[f].pc = "done" /\ h[f].op \in QueryOps) =>
            /\ result[f].ok
            /\ result[f].state # Null
            /\ (h[f].stackThrew /\ ~h[f].editorThrew) =>
                  LET s == result[f].state[1]
                  IN  /\ s.frameName = Null
                      /\ s.sessionActive
                      /\ s.frameId # Null /\ s.threadId # Null
                      /\ hasLocationInfo(s) = (activeTextEditor # Null)
                      /\ activeTextEditor # Null =>
                            /\ s.currentLine = Some(activeTextEditor[1].line + 1)
                            /\ s.fileFullPath = Some(activeTextEditor[1].path)
            /\ h[f].editorThrew =>
                  LET s == result[f].state[1]
                  IN  /\ ~hasLocationInfo(s)
                      /\ s.fileFullPath = Null /\ s.currentLineContent = Null
                      /\ s.nextLines = <<>>
                      /\ s.sessionActive
                      /\ s.frameId # Null /\ s.threadId # Null
                      /\ h[f].stackThrew => s.frameName = Null

\* The stackTrace request threw and the snapshot still has its location.
C24_Witness ==
    /\ Queried(1)
    /\ h[1].op = "getCurrentDebugState"
    /\ h[1].stackThrew
    /\ ~h[1].editorThrew
    /\ hasLocationInfo(result[1].state[1])
    /\ result[1].state[1].frameName = Null

\* C25: a snapshot returned with sessionActive false has every other field
\* absent or empty.
C25_InactiveIsEmpty ==
    \A f \in Flows :
        (Queried(f) /\ ~result[f].state[1].sessionActive) =>
            result[f].state[1] = NewDebugState

\* No session, while the editor still shows the file of the session before.
C25_Witness ==
    /\ Queried(1)
    /\ h[1].op = "getCurrentDebugState"
    /\ ~result[1].state[1].sessionActive
    /\ activeTextEditor # Null
    /\ prev[1].op = "start_debugging"

\* C26: a returned snapshot that has location info has a frame id and a
\* thread id and has sessionActive true.
C26_LocationNeedsContext ==
    \A f \in Flows :
        (Queried(f) /\ hasLocationInfo(result[f].state[1])) =>
            /\ result[f].state[1].frameId # Null
            /\ result[f].state[1].threadId # Null
            /\ result[f].state[1].sessionActive

\* A snapshot with a location was returned by a query whose stackTrace
\* request threw.
C26_Witness ==
    /\ Queried(1)
    /\ hasLocationInfo(result[1].state[1])
    /\ result[1].state[1].frameId # Null
    /\ h[1].stackThrew
    /\ h[1].op = "hasActiveSession"

\* C30: when a request made for hasActiveSession threw, hasActiveSession
\* returns false.
C30_FailsAsFalse ==
    \A f \in Flows :
        (/\ h[f].pc = "done"
         /\ h[f].op = "hasActiveSession"
         /\ h[f].stackThrew \/ h[f].editorThrew)
            => h[f].gate = Some(FALSE)


(***************************************************************************)
(* The backoff delays on their own.                                        *)
(***************************************************************************)

MaxAttempt == 6

\* Math.random() * 200, truncated to whole milliseconds: values of [0, 200).
DelayJitters == {0, 1, 100, 199}

InitDelay ==
    /\ AtRest
    /\ fnIn \in [loop : {"waitForStateChange", "waitForActiveDebugSession"},
                 attempt : 0 .. MaxAttempt, jitter : DelayJitters]
    /\ fnOut = Null

DelayApply ==
    /\ fnOut = Null
    /\ fnOut' = Some(IF fnIn.loop = "waitForStateChange"
                     THEN StateSleep(fnIn.attempt, fnIn.jitter)
                     ELSE ActiveSleep(fnIn.attempt, fnIn.jitter))
    /\ UNCHANGED <<engineVars, breakpoints, h, result, prev, calls, hsBefore, hsAfter,
                   hsResult, fnIn, serverVars>>

NextDelay == DelayApply

SpecDelay == InitDelay /\ [][NextDelay]_vars

\* C27: a sleep of waitForStateChange lies in [1000, 1200) whatever the
\* attempt; a sleep of waitForActiveDebugSession is its jitter added to
\* 1000, 2000, 4000, 8000 for attempts 0 to 3 and to 10000 from attempt 4
\* on, and without the jitter never exceeds 10000.
C27_Backoff ==
    fnOut # Null =>
        IF fnIn.loop = "waitForStateChange"
        THEN /\ fnOut[1] >= 1000
             /\ fnOut[1] < 1200
             /\ fnOut[1] = 1000 + fnIn.jitter
        ELSE /\ fnOut[1] - fnIn.jitter =
                    (IF fnIn.attempt < 4
                     THEN <<1000, 2000, 4000, 8000>>[fnIn.attempt + 1]
                     ELSE 10000)
             /\ fnOut[1] - fnIn.jitter <= 10000

\* The cap is in force: attempt 5 of waitForActiveDebugSession.
C27_Witness ==
    /\ fnOut = Some(10199)
    /\ fnIn.loop = "waitForActiveDebugSession"
    /\ fnIn.attempt = 5


(***************************************************************************)
(* Properties of waitForActiveDebugSession.                                *)
(***************************************************************************)

\* C28: waitForActiveDebugSession never sleeps after a poll that saw the
\* session active; it starts a sleep and a poll only while the elapsed time
\* is below the timeout; when a sleep ends at or after the timeout, no poll
\* is made and start_debugging fails with the timeout error, the elapsed
\* time being below the timeout plus the backoff interval just slept; when
\* it ends before the timeout the loop goes on or the session is reported.
C28_ActiveWaitBounded ==
    [][\A f \in Flows :
         LET a == h[f]
             b == h'[f]
         IN  /\ b.op = "start_debugging" => ~b.missed
             /\ (b.op = "start_debugging" /\ b.pc \in {"activePoll", "activeSleep"}) =>
                   b.elapsed < TimeoutInSeconds * 1000
             /\ (a.op = "start_debugging" /\ a.pc = "activeSleep" /\ a # b) =>
                   /\ \E jitter \in Jitters :
                         b.elapsed = a.elapsed + ActiveSleep(a.attempt, jitter)
                   /\ b.attempt = a.attempt + 1
                   /\ b.elapsed < TimeoutInSeconds * 1000
                                     + delay(1000, 10000, a.attempt) + 200
                   /\ b.elapsed >= TimeoutInSeconds * 1000 =>
                         /\ b.pc = "done"
                         /\ ~result'[f].ok
                         /\ result'[f].msg =
                              <<"Error starting debug session: ",
                                "Debug session started but failed to become active within timeout period">>
                         /\ b.lastPoll = a.lastPoll
                   /\ b.elapsed < TimeoutInSeconds * 1000 =>
                         \/ b.pc \in {"activeSleep", "activePoll", "startFinal"}
                         \/ b.pc = "done" /\ result'[f].ok
    ]_vars

\* The session never became active: the call failed after its last sleep
\* had carried the elapsed time past the timeout.
C28_Witness ==
    /\ h[1].pc = "done"
    /\ h[1].op = "start_debugging"
    /\ h[1].via = "throw"
    /\ h[1].started = Some(TRUE)
    /\ h[1].attempt >= 2
    /\ h[1].elapsed >= TimeoutInSeconds * 1000


(***************************************************************************)
(* getEffectiveDebugSession on its own: sessions are numbered, 0 stands    *)
(* for no parent, and a session is started after its parent.               *)
(***************************************************************************)

SessionIds == {1, 2, 3}

\* The parentSession of every session: a forest.
Topologies ==
    {p \in [SessionIds -> {0} \cup SessionIds] : \A s \in SessionIds : p[s] < s}

\* getAllDebugSessions: the active session and, if it is another one, the
\* session of the active stack item.
getAllDebugSessions(active, itemSession) ==
    <<active>> \o (IF itemSession # Null /\ itemSession[1] # active
                   THEN <<itemSession[1]>> ELSE <<>>)

\* allSessions.find(s => s.parentSession && s.parentSession.id === session.id)
FindChild(session, allSessions, parent) ==
    LET hits == {k \in 1 .. Len(allSessions) : parent[allSessions[k]] = session}
    IN  IF hits = {} THEN Null
        ELSE Some(allSessions[CHOOSE k \in hits : \A j \in hits : k <= j])

\* Faulty variant: the first child is returned without looking below it.
findDeepestChildOneLevel(session, allSessions, parent) ==
    LET child == FindChild(session, allSessions, parent)
    IN  IF child # Null THEN child[1] ELSE session

RECURSIVE findDeepestChild(_, _, _)
findDeepestChild(session, allSessions, parent) ==
    LET child == FindChild(session, allSessions, parent)
    IN  IF child # Null THEN findDeepestChild(child[1], allSessions, parent)
        ELSE session

getEffectiveDebugSession(active, itemSession, parent) ==
    findDeepestChild(active, getAllDebugSessions(active, itemSession), parent)

InitEff ==
    /\ AtRest
    /\ fnIn \in [active : SessionIds, itemSession : {Null} \cup {Some(s) : s \in SessionIds},
                 parent : Topologies]
    /\ fnOut = Null

EffApply ==
    /\ fnOut = Null
    /\ fnOut' = Some(getEffectiveDebugSession(fnIn.active, fnIn.itemSession, fnIn.parent))
    /\ UNCHANGED <<engineVars, breakpoints, h, result, prev, calls, hsBefore, hsAfter,
                   hsResult, fnIn, serverVars>>

NextEff == EffApply

SpecEff == InitEff /\ [][NextEff]_vars

\* The number of parent links from s up to the session a, or -1 when s is
\* not a or one of its descendants.
RECURSIVE DepthBelow(_, _, _)
DepthBelow(s, a, parent) ==
    IF s = a THEN 0
    ELSE IF parent[s] = 0 THEN -1
    ELSE LET d == DepthBelow(parent[s], a, parent)
         IN  IF d < 0 THEN -1 ELSE d + 1

\* C29: the effective session is the active session or a descendant of it,
\* and no descendant of the active session lies deeper; it is the active
\* session itself when that has no children.
C29_DeepestDescendant ==
    fnOut # Null =>
        LET d == DepthBelow(fnOut[1], fnIn.active, fnIn.parent)
        IN  /\ d >= 0
            /\ \A s \in SessionIds : DepthBelow(s, fnIn.active, fnIn.parent) <= d


\* C31: hasActiveSession answers true only with a snapshot that has location
\* info.
C31_ReadyNeedsLocation ==
    \A f \in Flows :
        (/\ h[f].pc = "done"
         /\ h[f].op = "hasActiveSession"
         /\ h[f].gate = Some(TRUE))
            => hasLocationInfo(result[f].state[1])


(***************************************************************************)
(* Tool calls whose engine call fails part-way.                            *)
(***************************************************************************)

\* handleAddBreakpoint, lines 260-263: executor.addBreakpoint throws for
\* the k-th matching line ('Failed to add breakpoint'); the lines before it
\* have their breakpoints, and the handler's catch rethrows.
AddBreakpointFails(f) ==
    /\ h[f].pc = "open"
    /\ h[f].fileFullPath # NoFile
    /\ LET m == matchingLineNumbers(LinesOf(h[f].fileFullPath), h[f].lineContent)
       IN  \E k \in 1 .. Len(m) :
              ApplyOutcome(f, Outcome([h[f] EXCEPT !.rejected = TRUE], FALSE,
                                      <<ErrorPrefix(h[f].op), "Failed to add breakpoint: ">>,
                                      <<>>,
                                      AddAll(breakpoints, h[f].fileFullPath,
                                             SubSeq(m, 1, k - 1))))
    /\ UNCHANGED <<engineVars, prev, calls, hsVars>>

NextFail == NextSession \/ CommandRejects(1) \/ AddBreakpointFails(1)

SpecFail == Init /\ [][NextFail]_vars

\* C32: a step in which add_breakpoint answers with an error leaves the
\* breakpoints as they were, and a step in which stop_debugging answers
\* with an error leaves the session and the breakpoints as they were.
C32_AllOrNothing ==
    [][\A f \in Flows :
         /\ ( /\ h[f].pc # "done"
              /\ h'[f].pc = "done"
              /\ h'[f].op = "add_breakpoint"
              /\ ~result'[f].ok )
            => breakpoints' = breakpoints
         /\ ( /\ h[f].pc # "done"
              /\ h'[f].pc = "done"
              /\ h'[f].op = "stop_debugging"
              /\ ~result'[f].ok )
            => /\ breakpoints' = breakpoints
               /\ activeDebugSession' = activeDebugSession
    ]_vars


(***************************************************************************)
(* DebugMCPServer: the HTTP server, its two endpoints and the map of the   *)
(* SSE transports by session id.                                           *)
(***************************************************************************)

\* The SSE connections of one scenario.
MaxConnections == 3

toolVars == <<engineVars, breakpoints, h, result, prev, calls, hsBefore, hsAfter,
              hsResult, fnIn, fnOut>>

\* Map.prototype.has and Map.prototype.delete on the keys in insertion order
MapHas(keys, k) == \E i \in 1 .. Len(keys) : keys[i] = k

MapDelete(keys, k) == SelectSeq(keys, LAMBDA x : x # k)

\* Faulty variant: a transport whose onclose leaves the map alone.
oncloseKeeps(s, sessionId) == s

\* transport.onclose as GET /sse sets it: the session id leaves the map.
onclose(s, sessionId) == [s EXCEPT !.transports = MapDelete(@, sessionId)]

\* SSEServerTransport.close(): the response stream ends and onclose runs.
closeTransport(s, sessionId) == onclose([s EXCEPT !.open = @ \ {sessionId}], sessionId)

\* stop() from the head of its for-loop to its next await.  The loop is a
\* live iteration of the map: it takes the first key it has not visited,
\* closes that transport and awaits; when no key is left it clears the map
\* and closes the HTTP server, if there is one.
stopLoop(s) ==
    LET rest == SelectSeq(s.transports, LAMBDA k : k \notin s.visited)
    IN  IF rest # <<>>
        THEN [closeTransport(s, rest[1]) EXCEPT !.visited = @ \cup {rest[1]},
                                                !.stop = "closing"]
        ELSE [s EXCEPT !.transports = <<>>,
                       !.visited = {},
                       !.stop = IF s.httpServer = "null" THEN "idle" ELSE "draining",
                       !.httpServer = IF @ = "null" THEN "null" ELSE "closing"]

\* start(): the server listens.
StartServer ==
    /\ server.httpServer = "null"
    /\ server.stop = "idle"
    /\ server' = [server EXCEPT !.httpServer = "listening"]
    /\ UNCHANGED <<toolVars, outputCapturer, evaluations>>

\* GET /sse: a transport with a fresh session id enters the map, gets its
\* onclose and is connected to the MCP server.
SseGet ==
    /\ server.httpServer = "listening"
    /\ server.created < MaxConnections
    /\ LET sessionId == server.created + 1
       IN  server' = [server EXCEPT !.created = sessionId,
                                    !.transports = Append(@, sessionId),
                                    !.open = @ \cup {sessionId}]
    /\ UNCHANGED <<toolVars, outputCapturer, evaluations>>

\* The client of an SSE connection goes away: the response closes and the
\* transport calls its onclose.
ClientDisconnects(sessionId) ==
    /\ sessionId \in server.open
    /\ server' = onclose([server EXCEPT !.open = @ \ {sessionId}], sessionId)
    /\ UNCHANGED <<toolVars, outputCapturer, evaluations>>

\* POST /messages?sessionId=...
PostMessages(sessionId) ==
    /\ server.httpServer = "listening"
    /\ server' = [server EXCEPT !.post =
           IF MapHas(server.transports, sessionId)
           THEN Some([sessionId |-> sessionId, status |-> 202, transport |-> Some(sessionId)])
           ELSE Some([sessionId |-> sessionId, status |-> 404, transport |-> Null])]
    /\ UNCHANGED <<toolVars, outputCapturer, evaluations>>

\* stop() is called.
StopServer ==
    /\ server.stop = "idle"
    /\ server' = stopLoop(server)
    /\ UNCHANGED <<toolVars, outputCapturer, evaluations>>

\* await transport.close() returns into the for-loop of stop().
TransportCloseReturns ==
    /\ server.stop = "closing"
    /\ server' = stopLoop(server)
    /\ UNCHANGED <<toolVars, outputCapturer, evaluations>>

\* httpServer.close() calls back once no connection is left: stop() returns.
ServerCloseReturns ==
    /\ server.stop = "draining"
    /\ server.open = {}
    /\ server' = [server EXCEPT !.httpServer = "null", !.stop = "idle"]
    /\ UNCHANGED <<toolVars, outputCapturer, evaluations>>

InitServer ==
    /\ AtRest
    /\ fnIn = Null
    /\ fnOut = Null

NextServer ==
    \/ StartServer
    \/ SseGet
    \/ \E sessionId \in 1 .. MaxConnections : ClientDisconnects(sessionId)
    \/ \E sessionId \in 1 .. MaxConnections + 1 : PostMessages(sessionId)
    \/ StopServer
    \/ TransportCloseReturns
    \/ ServerCloseReturns

SpecServer == InitServer /\ [][NextServer]_vars

MapKeys(keys) == {keys[i] : i \in 1 .. Len(keys)}

C34_StartedMeansActive ==
    (/\ Returned(1)
     /\ result[1].op = "start_debugging"
     /\ result[1].ok
     /\ result[1].msg = <<"Debug session started successfully">>)
        => result[1].text # NotActiveText


(***************************************************************************)
(* Properties of the wait after a step or continue command.                *)
(***************************************************************************)

\* C35: a step or continue call whose before-snapshot has a location and
\* whose answer is a snapshot of an active session without location did not
\* return before the timeout had elapsed, returns the snapshot queried after
\* the timeout, and returns it as a result, not as an error.
C35_GapWaitsForTimeout ==
    (/\ Returned(1)
     /\ result[1].op \in StepOps
     /\ hasLocationInfo(h[1].beforeState))
        => /\ result[1].ok
           /\ (Snapshot(1).sessionActive /\ ~hasLocationInfo(Snapshot(1)))
                  => /\ h[1].via = "timeout"
                     /\ h[1].elapsed >= TimeoutInSeconds * 1000

\* A continue_execution from a located stop that came back with an active,
\* unlocated snapshot.
C35_Witness ==
    /\ Returned(1)
    /\ result[1].op = "continue_execution"
    /\ result[1].ok
    /\ hasLocationInfo(h[1].beforeState)
    /\ Snapshot(1).sessionActive
    /\ ~hasLocationInfo(Snapshot(1))
    /\ h[1].via = "timeout"


(***************************************************************************)
(* Properties of the readiness gate.                                       *)
(***************************************************************************)

UngatedOps == StepOps \cup {"restart_debugging", "stop_debugging"}

\* C36: when hasActiveSession() answers false at the start of step_over,
\* step_into, step_out, continue_execution, restart_debugging or
\* stop_debugging, the step in which the handler learns it ends the call:
\* the engine has accepted nothing, no before-snapshot was taken and the
\* breakpoints are the same.
C36_GateFalseNoEffect ==
    [][\A f \in Flows :
          (/\ h[f].gate = Null
           /\ h'[f].gate = Some(FALSE)
           /\ h'[f].op \in UngatedOps)
              => /\ h'[f].pc = "done"
                 /\ engine' = engine
                 /\ breakpoints' = breakpoints
                 /\ h'[f].beforeState = NewDebugState]_vars

\* A stop_debugging or a step_over turned away at the gate with a
\* breakpoint set.
C36_Witness ==
    /\ Returned(1)
    /\ h[1].gate = Some(FALSE)
    /\ result[1].op \in {"stop_debugging", "step_over"}
    /\ breakpoints # <<>>


(***************************************************************************)
(* OutputCapturer and evaluateExpression: the calls of both flows share    *)
(* the one capturer; an output event is the number of its emission.        *)
(***************************************************************************)

\* The output events the debug adapter emits in one scenario.
MaxOutputs == 3

\* OutputCapturer.startCapture(sessionId)
startCapture(c, sessionId) ==
    [c EXCEPT !.outputBuffer = <<>>, !.targetSessionId = sessionId, !.capturing = TRUE]

\* OutputCapturer.stopCapture(): the capturer afterwards and the text returned.
stopCapture(c) ==
    [capturer |-> [c EXCEPT !.capturing = FALSE, !.targetSessionId = Null,
                            !.outputBuffer = <<>>],
     output   |-> c.outputBuffer]

\* onDidSendMessage for an output event of the session.
onDidSendMessage(c, session, output) ==
    IF c.capturing /\ (c.targetSessionId = Null \/ c.targetSessionId = Some(session))
    THEN [c EXCEPT !.outputBuffer = Append(@, output)]
    ELSE c

\* The highest number of an output event still on record with a call or in
\* the buffer; the next event takes the number after it.
Emitted ==
    LET seen == {outputCapturer.outputBuffer[k] : k \in 1 .. Len(outputCapturer.outputBuffer)}
                \cup UNION {{evaluations[f].delivered[k] :
                                 k \in 1 .. Len(evaluations[f].delivered)} : f \in Flows}
    IN  IF seen = {} THEN 0 ELSE CHOOSE n \in seen : \A m \in seen : m <= n

InCapture(f) == evaluations[f].pc \in {"request", "settle"}

\* evaluateExpression up to its first await: without a session it throws and
\* its catch stops the capture; with one it starts the capture and sends the
\* evaluate request.
EvaluateCall(f) ==
    /\ evaluations[f].pc = "idle"
    /\ \E session \in BOOLEAN :
          IF session
          THEN /\ outputCapturer' = startCapture(outputCapturer, Null)
               /\ evaluations' = [evaluations EXCEPT ![f] = [NoEvaluation EXCEPT !.pc = "request"]]
          ELSE /\ outputCapturer' = stopCapture(outputCapturer).capturer
               /\ evaluations' = [evaluations EXCEPT ![f] =
                                      [NoEvaluation EXCEPT !.pc = "done", !.threw = TRUE]]
    /\ UNCHANGED <<toolVars, server>>

\* The adapter sends an output event; it counts for every call that is
\* between its startCapture and its stopCapture.
OutputEvent ==
    /\ \E f \in Flows : InCapture(f)
    /\ Emitted < MaxOutputs
    /\ outputCapturer' = onDidSendMessage(outputCapturer, 1, Emitted + 1)
    /\ evaluations' = [f \in Flows |->
                          IF InCapture(f)
                          THEN [evaluations[f] EXCEPT !.delivered = Append(@, Emitted + 1)]
                          ELSE evaluations[f]]
    /\ UNCHANGED <<toolVars, server>>

\* customRequest('evaluate') answers or rejects.
EvaluateReturns(f) ==
    /\ evaluations[f].pc = "request"
    /\ \E rejects \in BOOLEAN :
          IF rejects
          THEN /\ outputCapturer' = stopCapture(outputCapturer).capturer
               /\ evaluations' = [evaluations EXCEPT ![f].pc = "done", ![f].threw = TRUE]
          ELSE /\ evaluations' = [evaluations EXCEPT ![f].pc = "settle"]
               /\ UNCHANGED outputCapturer
    /\ UNCHANGED <<toolVars, server>>

\* The 300 ms pause ends: stopCapture, and the call returns.
SettleEnds(f) ==
    /\ evaluations[f].pc = "settle"
    /\ outputCapturer' = stopCapture(outputCapturer).capturer
    /\ evaluations' = [evaluations EXCEPT ![f].pc = "done",
                                          ![f].captured = Some(stopCapture(outputCapturer).output)]
    /\ UNCHANGED <<toolVars, server>>

\* The caller has the answer and may call again.
EvaluateReceived(f) ==
    /\ evaluations[f].pc = "done"
    /\ evaluations' = [evaluations EXCEPT ![f] = NoEvaluation]
    /\ UNCHANGED <<toolVars, server, outputCapturer>>

NextCapture ==
    \/ OutputEvent
    \/ \E f \in Flows :
          \/ EvaluateCall(f)
          \/ EvaluateReturns(f)
          \/ SettleEnds(f)
          \/ EvaluateReceived(f)

SpecCapture == InitServer /\ [][NextCapture]_vars

\* C37: what stopCapture returns to an evaluateExpression call is exactly
\* the output events delivered between that call's startCapture and its
\* stopCapture; and when no evaluateExpression is in progress the capturer
\* is not capturing and its buffer is empty.
C37_OutputAttributed ==
    /\ \A f \in Flows :
          (evaluations[f].pc = "done" /\ evaluations[f].captured # Null)
              => evaluations[f].captured[1] = evaluations[f].delivered
    /\ (\A f \in Flows : ~InCapture(f))
          => /\ ~outputCapturer.capturing
             /\ outputCapturer.outputBuffer = <<>>


(***************************************************************************)
(* hasStateChanged and the tests of waitForStateChange on a snapshot of an *)
(* ended session (specification SpecHSC).                                  *)
(***************************************************************************)

\* C38: for every pair of snapshots whose second is of an inactive session,
\* hasStateChanged is true; so a poll of waitForStateChange that finds the
\* session inactive returns through the hasStateChanged test, never through
\* the 'session ended' test that follows it.
C38_EndedIsChanged ==
    /\ (hsResult # Null /\ ~hsAfter.sessionActive) => hsResult[1]
    /\ CheckPoll([IdleCall EXCEPT !.beforeState = hsBefore], hsAfter).h.via # "ended"

\* Two snapshots of an inactive session, compared.
C38_Witness ==
    /\ hsResult = Some(TRUE)
    /\ ~hsBefore.sessionActive
    /\ ~hsAfter.sessionActive


(***************************************************************************)
(* findDeepestChild on its own: every start session, every list of known   *)
(* sessions and every forest of parent links.                              *)
(***************************************************************************)

\* The longest list of known sessions.
MaxKnown == 3

SessionLists == UNION {[1 .. n -> SessionIds] : n \in 0 .. MaxKnown}

\* The calls findDeepestChild makes of itself, the first included.
RECURSIVE findDeepestChildCalls(_, _, _)
findDeepestChildCalls(session, allSessions, parent) ==
    LET child == FindChild(session, allSessions, parent)
    IN  IF child # Null THEN 1 + findDeepestChildCalls(child[1], allSessions, parent)
        ELSE 1

InitDeepest ==
    /\ AtRest
    /\ fnIn \in [session : SessionIds, allSessions : SessionLists, parent : Topologies]
    /\ fnOut = Null

DeepestApply ==
    /\ fnOut = Null
    /\ fnOut' = Some(findDeepestChild(fnIn.session, fnIn.allSessions, fnIn.parent))
    /\ UNCHANGED <<engineVars, breakpoints, h, result, prev, calls, hsBefore, hsAfter,
                   hsResult, fnIn, serverVars>>

NextDeepest == DeepestApply

SpecDeepest == InitDeepest /\ [][NextDeepest]_vars

\* C39: on a forest of parent links findDeepestChild returns after at most
\* one call per known session and one more, and what it returns is the start
\* session or a descendant of it and is the parent of no known session.
C39_DeepestTerminates ==
    fnOut # Null =>
        /\ findDeepestChildCalls(fnIn.session, fnIn.allSessions, fnIn.parent)
               <= Len(fnIn.allSessions) + 1
        /\ DepthBelow(fnOut[1], fnIn.session, fnIn.parent) >= 0
        /\ FindChild(fnOut[1], fnIn.allSessions, fnIn.parent) = Null

\* A start session with a known child and a known grandchild: the
\* grandchild is returned.
C39_Witness ==
    /\ fnOut # Null
    /\ DepthBelow(fnOut[1], fnIn.session, fnIn.parent) = 2

=============================================================================
